---- MODULE Spec2Model ----
(***************************************************************************)
(* Relationship extraction (veoci_mapper/analyzer.py) and graph assembly   *)
(* (veoci_mapper/graph.py) of the Veoci solution mapper.                   *)
(*                                                                         *)
(* Raw API payloads are open-ended JSON mappings.  A JSON value read with  *)
(* dict.get is modelled as a record [k, s]: k is the kind of the value     *)
(* ("absent" when the key is missing, "none" for null, "str", "int",       *)
(* "bool", "list") and s is the text str() gives for it.  Python None in a *)
(* Relationship is the value Null; an exception leaving a function is the  *)
(* status "raised".                                                        *)
(***************************************************************************)
EXTENDS Integers, Sequences, FiniteSets, TLC

VARIABLES op, status, entity, idx, relationships,
          actions, forms, actionMap, taskTypes, allRels, seen, unique, first,
          gForms, gWorkflows, gTaskTypes, gRels, gContainer, nodes, edges, order,
          edgeOrder, stats, neighbors, solution, server, run,
          call, tasks, semaphore, finished, results

vars == <<op, status, entity, idx, relationships,
          actions, forms, actionMap, taskTypes, allRels, seen, unique, first,
          gForms, gWorkflows, gTaskTypes, gRels, gContainer, nodes, edges, order,
          edgeOrder, stats, neighbors, solution, server, run,
          call, tasks, semaphore, finished, results>>

extractVars == <<entity, idx, relationships>>
actionVars  == <<actions>>
analyzeVars == <<forms, actionMap, taskTypes, allRels, seen, unique, first>>
runVars     == <<solution, server, run>>
fetchVars   == <<call, tasks, semaphore, finished, results>>
graphVars   == <<gForms, gWorkflows, gTaskTypes, gRels, gContainer, nodes, edges,
                 order, edgeOrder, stats, neighbors>>

(***************************************************************************)
(* Bounds of the model.                                                    *)
(***************************************************************************)
MaxFields == 2
MaxActions == 2
MaxForms == 2
MaxRels == 2
MaxEdges == 7

(***************************************************************************)
(* Python values.                                                          *)
(***************************************************************************)
Null == "<null>"

Absent == [k |-> "absent", s |-> ""]
NoneV == [k |-> "none", s |-> "None"]
S(x) == [k |-> "str", s |-> x]
I(x) == [k |-> "int", s |-> x]
B(x) == [k |-> "bool", s |-> x]
L(x) == [k |-> "list", s |-> x]

\* dict.get(key, default): the default only replaces a missing key
Get(v, default) == IF v.k = "absent" THEN default ELSE v

\* "is not None" in the place of the truth test
Truthy_NotNone(v) == v.k \notin {"absent", "none"}

\* bool(v)
Truthy(v) ==
    \/ v.k = "str" /\ v.s # ""
    \/ v.k = "int" /\ v.s # "0"
    \/ v.k = "bool" /\ v.s = "True"
    \/ v.k = "list" /\ v.s # "[]"

\* str(v)
Str(v) == v.s

\* a value handed to a pydantic field declared str
IsStr(v) == v.k = "str"
\* a value handed to a pydantic field declared str | None
IsOptStr(v) == v.k \in {"str", "none"}
\* a value handed to a pydantic field declared bool | None
IsOptBool(v) == v.k \in {"bool", "none"}
\* the stored form of an optional value
Opt(v) == IF v.k = "none" THEN Null ELSE v.s

(***************************************************************************)
(* analyzer.py: the Relationship model and the relationship type tags.     *)
(***************************************************************************)
REFERENCE == "REFERENCE"
FORM_ENTRY == "FORM_ENTRY"
LOOKUP == "LOOKUP"
WORKFLOW == "WORKFLOW"
WORKFLOW_LOOKUP == "WORKFLOW_LOOKUP"
TASK == "TASK"
ACTION_CREATES_ENTRY == "ACTION_CREATES_ENTRY"
ACTION_INVOKES_WORKFLOW == "ACTION_INVOKES_WORKFLOW"
ACTION_CREATES_TASK == "ACTION_CREATES_TASK"
ACTION_LAUNCHES_TEMPLATE == "ACTION_LAUNCHES_TEMPLATE"
ACTION_LAUNCHES_PLAN == "ACTION_LAUNCHES_PLAN"

FieldTags == {REFERENCE, FORM_ENTRY, LOOKUP, WORKFLOW, WORKFLOW_LOOKUP, TASK}
ActionTags == {ACTION_CREATES_ENTRY, ACTION_INVOKES_WORKFLOW, ACTION_CREATES_TASK,
               ACTION_LAUNCHES_TEMPLATE, ACTION_LAUNCHES_PLAN}

\* Relationship(...): the defaults of the optional attributes are None
Relationship(sid, sname, tid, tname, ttype, rtype, fname) ==
    [source_id |-> sid, source_name |-> sname, target_id |-> tid,
     target_name |-> tname, target_type |-> ttype, relationship_type |-> rtype,
     field_name |-> fname, action_id |-> Null, action_name |-> Null,
     trigger_type |-> Null, automatic |-> Null, target_container_id |-> Null,
     is_subform |-> Null]

\* the outcome of one loop iteration: the relationships appended, or an exception
Emit(rs) == [raised |-> FALSE, rels |-> rs]
Raise == [raised |-> TRUE, rels |-> <<>>]

(***************************************************************************)
(* extract_relationships: the body of the loop over fields.items().        *)
(***************************************************************************)
\* a mapping-valued key read with .get(key, {}) and then used with .get
IsMapping(o) == o.k \in {"absent", "dict"}

\* is_subform left null where referenceNewEntry is not truthy
ReferenceLike_RawFlag(form_id, form_name, field, field_type, field_name) ==
    LET source_form_id == Get(field.sourceFormId, NoneV)
        source_form == field.sourceForm
        \* source_form.get("name") if source_form else None
        sfTruthy == \/ source_form.k = "dict" /\ source_form.name.k # "absent"
                    \/ source_form.k = "str"
        target_name == IF source_form.k = "dict" /\ sfTruthy
                       THEN Get(source_form.name, NoneV) ELSE NoneV
        props == field.properties
        reference_new_entry == IF props.k = "dict"
                               THEN Get(props.referenceNewEntry, NoneV) ELSE NoneV
        is_subform == IF field_type = REFERENCE
                      THEN (IF Truthy(reference_new_entry) THEN "True" ELSE Null)
                      ELSE Null
    IN  IF ~Truthy(source_form_id) THEN Emit(<<>>)
        ELSE IF sfTruthy /\ source_form.k # "dict" THEN Raise
        ELSE IF field_type = REFERENCE /\ ~IsMapping(props) THEN Raise
        ELSE IF ~(IsStr(form_name) /\ IsOptStr(target_name) /\ IsOptStr(field_name))
             THEN Raise
        ELSE Emit(<<[Relationship(form_id, Str(form_name), Str(source_form_id),
                                  Opt(target_name), "form", field_type,
                                  Opt(field_name))
                     EXCEPT !.is_subform = is_subform]>>)

ReferenceLike(form_id, form_name, field, field_type, field_name) ==
    LET source_form_id == Get(field.sourceFormId, NoneV)
        source_form == field.sourceForm
        \* source_form.get("name") if source_form else None
        sfTruthy == \/ source_form.k = "dict" /\ source_form.name.k # "absent"
                    \/ source_form.k = "str"
        target_name == IF source_form.k = "dict" /\ sfTruthy
                       THEN Get(source_form.name, NoneV) ELSE NoneV
        props == field.properties
        reference_new_entry == IF props.k = "dict"
                               THEN Get(props.referenceNewEntry, NoneV) ELSE NoneV
        is_subform == IF field_type = REFERENCE
                      THEN (IF Truthy(reference_new_entry) THEN "True" ELSE "False")
                      ELSE Null
    IN  IF ~Truthy(source_form_id) THEN Emit(<<>>)
        ELSE IF sfTruthy /\ source_form.k # "dict" THEN Raise
        ELSE IF field_type = REFERENCE /\ ~IsMapping(props) THEN Raise
        ELSE IF ~(IsStr(form_name) /\ IsOptStr(target_name) /\ IsOptStr(field_name))
             THEN Raise
        ELSE Emit(<<[Relationship(form_id, Str(form_name), Str(source_form_id),
                                  Opt(target_name), "form", field_type,
                                  Opt(field_name))
                     EXCEPT !.is_subform = is_subform]>>)

WorkflowLike(form_id, form_name, field, field_type, field_name) ==
    LET props == field.properties
        process_id == IF props.k = "dict" THEN Get(props.processId, NoneV) ELSE NoneV
        process_name == IF props.k = "dict" THEN Get(props.processName, NoneV) ELSE NoneV
    IN  IF ~IsMapping(props) THEN Raise
        ELSE IF ~Truthy(process_id) THEN Emit(<<>>)
        ELSE IF ~(IsStr(form_name) /\ IsOptStr(process_name) /\ IsOptStr(field_name))
             THEN Raise
        ELSE Emit(<<Relationship(form_id, Str(form_name), Str(process_id),
                                 Opt(process_name), "workflow", field_type,
                                 Opt(field_name))>>)

\* the container converted whenever it is given, empty or not
TaskLike_AnyContainer(form_id, form_name, field, field_name) ==
    LET props == field.properties
        task_type_id == IF props.k = "dict" THEN Get(props.taskTypeFilter, NoneV) ELSE NoneV
        task_type_container ==
            IF props.k = "dict" THEN Get(props.taskTypeContainer, NoneV) ELSE NoneV
        container_id_str == IF task_type_container.k \notin {"absent", "none"}
                            THEN Str(task_type_container) ELSE Null
    IN  IF ~IsMapping(props) THEN Raise
        ELSE IF ~Truthy(task_type_id) THEN Emit(<<>>)
        ELSE IF ~(IsStr(form_name) /\ IsOptStr(field_name)) THEN Raise
        ELSE Emit(<<[Relationship(form_id, Str(form_name), Str(task_type_id),
                                  Null, "task_type", TASK, Opt(field_name))
                     EXCEPT !.target_container_id = container_id_str]>>)

TaskLike(form_id, form_name, field, field_name) ==
    LET props == field.properties
        task_type_id == IF props.k = "dict" THEN Get(props.taskTypeFilter, NoneV) ELSE NoneV
        task_type_container ==
            IF props.k = "dict" THEN Get(props.taskTypeContainer, NoneV) ELSE NoneV
        container_id_str == IF Truthy(task_type_container)
                            THEN Str(task_type_container) ELSE Null
    IN  IF ~IsMapping(props) THEN Raise
        ELSE IF ~Truthy(task_type_id) THEN Emit(<<>>)
        ELSE IF ~(IsStr(form_name) /\ IsOptStr(field_name)) THEN Raise
        ELSE Emit(<<[Relationship(form_id, Str(form_name), Str(task_type_id),
                                  Null, "task_type", TASK, Opt(field_name))
                     EXCEPT !.target_container_id = container_id_str]>>)

FieldBody(form_id, form_name, field_id, field) ==
    IF ~field.mapping THEN Raise
    ELSE LET field_type == Str(Get(field.fieldType, S("")))
             field_name == Get(field.name, S("Field " \o field_id))
         IN  IF field_type \in {REFERENCE, FORM_ENTRY, LOOKUP}
                 THEN ReferenceLike(form_id, form_name, field, field_type, field_name)
             ELSE IF field_type \in {WORKFLOW, WORKFLOW_LOOKUP}
                 THEN WorkflowLike(form_id, form_name, field, field_type, field_name)
             ELSE IF field_type = TASK
                 THEN TaskLike(form_id, form_name, field, field_name)
             ELSE Emit(<<>>)

\* form_id and form_name as extract_relationships reads them
FormId(form_definition) == Str(Get(form_definition.id, S("")))
FormName(form_definition) == Get(form_definition.name, S("Unknown"))

\* extract_relationships as a function of the definition: the loop run to
\* its end, or to the first exception
RECURSIVE ExtractFrom(_, _, _)
ExtractFrom(form_definition, i, acc) ==
    IF i > Len(form_definition.fields) THEN Emit(acc)
    ELSE LET r == FieldBody(FormId(form_definition), FormName(form_definition),
                            form_definition.fields[i].id, form_definition.fields[i].f)
         IN  IF r.raised THEN Raise
             ELSE ExtractFrom(form_definition, i + 1, acc \o r.rels)

extract_relationships(form_definition) ==
    IF form_definition.fieldsKind \notin {"absent", "dict"} THEN Emit(<<>>)
    ELSE ExtractFrom(form_definition, 1, <<>>)

(***************************************************************************)
(* extract_action_relationships: the body of the loop over actions.        *)
(***************************************************************************)
\* x == n for a JSON value x and an integer literal n
IsInt(v, n) == v.k = "int" /\ v.s = n

\* the skip set without the last email variant
SkipObjectTypes_Short == {"11", "16", "21"}

\* the skip set of target object types (SQL report, email variants)
SkipObjectTypes == {"11", "16", "21", "22"}

\* Relationship(...) with the action metadata of the current action
ActionRelationship(source_id, source_name, action, tid, ttype, rtype, container) ==
    [Relationship(source_id, Str(source_name), tid, Null, ttype, rtype, Null)
     EXCEPT !.action_id = Str(Get(action.id, S(""))),
            !.action_name = Opt(Get(action.name, S("Unknown Action"))),
            !.trigger_type = Opt(Get(action.eventType, S(""))),
            !.automatic = Opt(Get(action.automatic, B("False"))),
            !.target_container_id = container]

\* pydantic accepts the values the action contributes to a Relationship
ActionValid(source_name, action) ==
    /\ IsStr(source_name)
    /\ IsOptStr(Get(action.name, S("Unknown Action")))
    /\ IsOptStr(Get(action.eventType, S("")))
    /\ IsOptBool(Get(action.automatic, B("False")))

\* c or b or a
Or3_LastFirst(a, b, c) == IF Truthy(c) THEN c ELSE IF Truthy(b) THEN b ELSE a

\* a or b or c
Or3(a, b, c) == IF Truthy(a) THEN a ELSE IF Truthy(b) THEN b ELSE c

\* the workflow branch reading the id of the form branch
PrimaryMapping_WrongKey(params) ==
    LET target_object_type == Get(params.targetObjectType, NoneV)
    IN  IF IsInt(target_object_type, "5")
            THEN <<ACTION_CREATES_ENTRY, "form", Get(params.targetForm, NoneV)>>
        ELSE IF IsInt(target_object_type, "9")
            THEN <<ACTION_INVOKES_WORKFLOW, "workflow", Get(params.targetForm, NoneV)>>
        ELSE IF IsInt(target_object_type, "3")
            THEN <<ACTION_CREATES_TASK, "task_type", Get(params.targetTaskType, NoneV)>>
        ELSE <<Null, Null, NoneV>>

\* the create/invoke branch: <<relationship_type, target_type, target_id>>
PrimaryMapping(params) ==
    LET target_object_type == Get(params.targetObjectType, NoneV)
    IN  IF IsInt(target_object_type, "5")
            THEN <<ACTION_CREATES_ENTRY, "form", Get(params.targetForm, NoneV)>>
        ELSE IF IsInt(target_object_type, "9")
            THEN <<ACTION_INVOKES_WORKFLOW, "workflow", Get(params.targetProcess, NoneV)>>
        ELSE IF IsInt(target_object_type, "3")
            THEN <<ACTION_CREATES_TASK, "task_type", Get(params.targetTaskType, NoneV)>>
        ELSE <<Null, Null, NoneV>>

PrimaryRels(source_id, source_name, action, params) ==
    LET m == PrimaryMapping(params)
        target_container_id ==
            IF m[2] = "task_type"
            THEN Or3(Get(params.targetTaskTypeContainer, NoneV),
                     Get(params.taskTypeContainer, NoneV),
                     Get(params.targetContainer, NoneV))
            ELSE NoneV
    IN  IF m[1] # Null /\ Truthy(m[3])
        THEN <<ActionRelationship(source_id, source_name, action, Str(m[3]), m[2], m[1],
                   IF Truthy(target_container_id) THEN Str(target_container_id) ELSE Null)>>
        ELSE <<>>

LaunchRels(source_id, source_name, action, params) ==
    LET target_container_type == Get(params.targetContainerType, NoneV)
        container_id == Get(params.targetContainerId, NoneV)
    IN  IF IsInt(target_container_type, "5") /\ Truthy(container_id)
            THEN <<ActionRelationship(source_id, source_name, action, Str(container_id),
                                      "template", ACTION_LAUNCHES_TEMPLATE, Null)>>
        ELSE IF IsInt(target_container_type, "7") /\ Truthy(container_id)
            THEN <<ActionRelationship(source_id, source_name, action, Str(container_id),
                                      "plan", ACTION_LAUNCHES_PLAN, Null)>>
        ELSE <<>>

\* the action is left by one of the three continue statements
ActionSkipped(action) ==
    \/ Str(Get(action.consequenceType, S(""))) = "CALL_REST_API"
    \/ action.params.k \notin {"absent", "dict"}
    \/ /\ action.params.k = "dict"
       /\ action.params.targetObjectType.k = "int"
       /\ action.params.targetObjectType.s \in SkipObjectTypes

\* the parameter bag the action is read with: consequenceParams, or {}
EmptyParams ==
    [k |-> "dict", targetObjectType |-> Absent, targetForm |-> Absent,
     targetProcess |-> Absent, targetTaskType |-> Absent,
     targetTaskTypeContainer |-> Absent, taskTypeContainer |-> Absent,
     targetContainer |-> Absent, targetContainerType |-> Absent,
     targetContainerId |-> Absent]

ActionBody(source_id, source_name, action) ==
    IF ~action.mapping THEN Raise
    ELSE IF ActionSkipped(action) THEN Emit(<<>>)
    ELSE LET params == IF action.params.k = "absent" THEN EmptyParams ELSE action.params
             rs == PrimaryRels(source_id, source_name, action, params)
                   \o LaunchRels(source_id, source_name, action, params)
         IN  IF rs # <<>> /\ ~ActionValid(source_name, action) THEN Raise
             ELSE Emit(rs)

RECURSIVE ActionsFrom(_, _, _, _, _)
ActionsFrom(source_id, source_name, acts, i, acc) ==
    IF i > Len(acts) THEN Emit(acc)
    ELSE LET r == ActionBody(source_id, source_name, acts[i])
         IN  IF r.raised THEN Raise
             ELSE ActionsFrom(source_id, source_name, acts, i + 1, acc \o r.rels)

extract_action_relationships(source_id, source_name, acts) ==
    ActionsFrom(source_id, source_name, acts, 1, <<>>)

(***************************************************************************)
(* Inputs: field records, entity definitions, action records.              *)
(***************************************************************************)
Props(k, pid, pname, ttf, ttc, rne) ==
    [k |-> k, processId |-> pid, processName |-> pname, taskTypeFilter |-> ttf,
     taskTypeContainer |-> ttc, referenceNewEntry |-> rne]
NoProps == Props("absent", Absent, Absent, Absent, Absent, Absent)
NullProps == Props("none", Absent, Absent, Absent, Absent, Absent)
EmptyProps == Props("dict", Absent, Absent, Absent, Absent, Absent)

SourceForm(k, name) == [k |-> k, name |-> name]
NoSourceForm == SourceForm("absent", Absent)

Fld(type, name, sfid, sform, props) ==
    [mapping |-> TRUE, fieldType |-> type, name |-> name, sourceFormId |-> sfid,
     sourceForm |-> sform, properties |-> props]
\* a field record that is null instead of a mapping
NullField == [Fld(Absent, Absent, Absent, NoSourceForm, NoProps) EXCEPT !.mapping = FALSE]

Fields ==
    { Fld(S(REFERENCE), S("Parent"), S("2"), SourceForm("dict", S("Parent Form")),
          Props("dict", Absent, Absent, Absent, Absent, B("True"))),
      Fld(S(REFERENCE), S("Parent"), S("2"), NoSourceForm, EmptyProps),
      Fld(S(REFERENCE), Absent, I("2"), SourceForm("none", Absent),
          Props("dict", Absent, Absent, Absent, Absent, B("False"))),
      Fld(S(REFERENCE), S("Parent"), Absent, NoSourceForm, NoProps),
      Fld(S(REFERENCE), S("Child"), S("3"), NoSourceForm, NoProps),
      Fld(S(REFERENCE), S("Child"), S("3"), NoSourceForm,
          Props("dict", Absent, Absent, Absent, Absent, NoneV)),
      Fld(S(REFERENCE), S("Child"), S("3"), NoSourceForm,
          Props("dict", Absent, Absent, Absent, Absent, S("no"))),
      Fld(S(REFERENCE), S("Parent"), S(""), NoSourceForm, NoProps),
      Fld(S(REFERENCE), S("Parent"), S("2"), NoSourceForm, NullProps),
      Fld(S(REFERENCE), S("Parent"), S("2"), SourceForm("str", S("Parent Form")), NoProps),
      Fld(S(FORM_ENTRY), S("Entry"), I("3"), SourceForm("dict", Absent), NullProps),
      Fld(S(FORM_ENTRY), NoneV, NoneV, NoSourceForm, NoProps),
      Fld(S(LOOKUP), Absent, S("2"), SourceForm("dict", NoneV), NoProps),
      Fld(S(LOOKUP), L("['x']"), S("3"), NoSourceForm, NoProps),
      Fld(S(LOOKUP), S("Look"), I("0"), NoSourceForm, NoProps),
      Fld(S(WORKFLOW), S("Flow"), Absent, NoSourceForm,
          Props("dict", S("9"), S("Approval"), Absent, Absent, Absent)),
      Fld(S(WORKFLOW), S("Flow"), S("2"), NoSourceForm, NoProps),
      Fld(S(WORKFLOW), S("Flow"), Absent, NoSourceForm, NullProps),
      Fld(S(WORKFLOW_LOOKUP), Absent, Absent, NoSourceForm,
          Props("dict", I("9"), Absent, Absent, Absent, Absent)),
      Fld(S(WORKFLOW_LOOKUP), S("Flow"), Absent, NoSourceForm,
          Props("dict", S(""), S("Approval"), Absent, Absent, Absent)),
      Fld(S(TASK), S("Todo"), Absent, NoSourceForm,
          Props("dict", Absent, Absent, S("77"), S("99"), Absent)),
      Fld(S(TASK), S("Todo"), Absent, NoSourceForm,
          Props("dict", Absent, Absent, I("77"), Absent, Absent)),
      Fld(S(TASK), S("Todo"), Absent, NoSourceForm,
          Props("dict", S("9"), Absent, Absent, S("99"), Absent)),
      Fld(S(TASK), S("Todo"), Absent, NoSourceForm,
          Props("dict", Absent, Absent, S("77"), S(""), Absent)),
      Fld(S(TASK), S("Todo"), Absent, NoSourceForm, NullProps),
      Fld(S("TEXT"), L("['x']"), S("2"), SourceForm("str", S("Parent Form")),
          Props("none", Absent, Absent, Absent, Absent, Absent)),
      Fld(Absent, S("Plain"), S("2"), NoSourceForm,
          Props("dict", S("9"), Absent, S("77"), Absent, Absent)),
      NullField }

FieldIds == <<"f1", "f2", "f3", "f4">>

\* the fields mapping, in insertion order
FieldItems(fs) == [i \in 1..Len(fs) |-> [id |-> FieldIds[i], f |-> fs[i]]]

SeqsUpTo(X, n) == UNION {[1..m -> X] : m \in 0..n}

EntityHeads ==
    { [id |-> S("1"), name |-> S("Intake")],
      [id |-> Absent, name |-> Absent],
      [id |-> I("1"), name |-> NoneV] }

EntityDef(head, kind, fs) ==
    [id |-> head.id, name |-> head.name, fieldsKind |-> kind, fields |-> FieldItems(fs)]

FormDefs ==
    {EntityDef(h, "dict", fs) : h \in EntityHeads, fs \in SeqsUpTo(Fields, MaxFields)}
    \cup {EntityDef(h, k, <<>>) : h \in EntityHeads, k \in {"absent", "none"}}

Params(tot, tf, tp, ttt, c1, c2, c3, tct, tcid) ==
    [k |-> "dict", targetObjectType |-> tot, targetForm |-> tf, targetProcess |-> tp,
     targetTaskType |-> ttt, targetTaskTypeContainer |-> c1, taskTypeContainer |-> c2,
     targetContainer |-> c3, targetContainerType |-> tct, targetContainerId |-> tcid]
NoParams == [EmptyParams EXCEPT !.k = "absent"]
\* consequenceParams that is null, or a string, instead of a mapping
NullParams == [EmptyParams EXCEPT !.k = "none"]
TextParams == [EmptyParams EXCEPT !.k = "str"]

Act(id, name, ctype, event, auto, params) ==
    [mapping |-> TRUE, id |-> id, name |-> name, consequenceType |-> ctype,
     eventType |-> event, automatic |-> auto, params |-> params]
\* an action record that is null instead of a mapping
NullAction == [Act(Absent, Absent, Absent, Absent, Absent, NoParams) EXCEPT !.mapping = FALSE]

Actions ==
    { Act(S("a1"), S("Call"), S("CALL_REST_API"), S("ON_SUBMIT"), B("True"),
          Params(I("5"), S("2"), Absent, Absent, Absent, Absent, Absent, I("5"), S("50"))),
      Act(S("a2"), S("Mail"), S("SEND"), S("ON_SUBMIT"), B("True"),
          Params(I("16"), S("2"), Absent, Absent, Absent, Absent, Absent, I("7"), S("70"))),
      Act(S("a3"), S("Report"), Absent, Absent, Absent,
          Params(I("11"), Absent, Absent, Absent, Absent, Absent, Absent, I("5"), S("50"))),
      Act(S("a3"), S("Mail"), Absent, Absent, Absent,
          Params(I("21"), S("2"), Absent, Absent, Absent, Absent, Absent, Absent, Absent)),
      Act(S("a3"), S("Mail"), Absent, Absent, Absent,
          Params(I("22"), Absent, S("9"), Absent, Absent, Absent, Absent, I("7"), S("70"))),
      Act(S("a4"), S("Create"), S("CREATE"), S("ON_SUBMIT"), B("False"),
          Params(I("5"), S("2"), Absent, Absent, Absent, Absent, Absent, Absent, Absent)),
      Act(I("4"), Absent, Absent, Absent, Absent,
          Params(I("5"), I("2"), S("9"), Absent, Absent, Absent, Absent, Absent, Absent)),
      Act(S("a4"), S("Create"), S("CREATE"), S("ON_SUBMIT"), B("False"),
          Params(I("5"), Absent, S("9"), S("77"), Absent, Absent, Absent, Absent, Absent)),
      Act(S("a4"), S("Create"), S("CREATE"), S("ON_SUBMIT"), B("False"),
          Params(I("5"), S(""), Absent, Absent, Absent, Absent, Absent, Absent, Absent)),
      Act(S("a5"), S("Invoke"), S("INVOKE"), S("ON_SAVE"), B("True"),
          Params(I("9"), Absent, S("9"), Absent, Absent, Absent, Absent, Absent, Absent)),
      Act(S("a5"), S("Invoke"), S("INVOKE"), S("ON_SAVE"), B("True"),
          Params(I("9"), Absent, S("9"), Absent, Absent, Absent, Absent, I("5"), S("50"))),
      Act(S("a5"), NoneV, S("INVOKE"), NoneV, NoneV,
          Params(I("9"), S("2"), Absent, Absent, Absent, Absent, Absent, I("7"), S("70"))),
      Act(S("a6"), S("Task"), S("CREATE"), S("ON_SUBMIT"), B("False"),
          Params(I("3"), Absent, Absent, S("77"), S("91"), S("92"), S("93"), Absent, Absent)),
      Act(S("a6"), S("Task"), S("CREATE"), S("ON_SUBMIT"), B("False"),
          Params(I("3"), Absent, Absent, S("77"), Absent, I("92"), S("93"), I("5"), S("50"))),
      Act(S("a6"), S("Task"), S("CREATE"), S("ON_SUBMIT"), B("False"),
          Params(I("3"), Absent, Absent, S("77"), S(""), Absent, S("93"), Absent, Absent)),
      Act(S("a6"), S("Task"), S("CREATE"), S("ON_SUBMIT"), B("False"),
          Params(I("3"), Absent, Absent, I("77"), Absent, Absent, Absent, Absent, Absent)),
      Act(S("a7"), S("Launch"), S("LAUNCH"), S("ON_SUBMIT"), B("False"),
          Params(Absent, Absent, Absent, Absent, Absent, Absent, Absent, I("5"), S("50"))),
      Act(S("a7"), S("Launch"), S("LAUNCH"), S("ON_SUBMIT"), B("False"),
          Params(Absent, S("2"), Absent, Absent, Absent, Absent, Absent, I("7"), I("70"))),
      Act(S("a7"), S("Launch"), S("LAUNCH"), S("ON_SUBMIT"), B("False"),
          Params(I("4"), S("2"), S("9"), S("77"), Absent, Absent, Absent, I("7"), Absent)),
      Act(S("a7"), S("Launch"), S("LAUNCH"), S("ON_SUBMIT"), B("False"),
          Params(S("5"), S("2"), Absent, Absent, Absent, Absent, Absent, I("5"), S(""))),
      Act(S("a7"), S("Launch"), S("LAUNCH"), S("ON_SUBMIT"), B("False"),
          Params(I("9"), Absent, Absent, Absent, Absent, Absent, Absent, I("6"), S("60"))),
      Act(S("a8"), S("Odd"), S("CREATE"), S("ON_SUBMIT"), B("False"), NoParams),
      Act(S("a8"), S("Odd"), S("CREATE"), S("ON_SUBMIT"), B("False"), NullParams),
      Act(S("a8"), S("Odd"), S("CREATE"), S("ON_SUBMIT"), B("False"), TextParams),
      Act(S("a9"), L("['x']"), S("CREATE"), S("ON_SUBMIT"), B("False"),
          Params(I("5"), S("2"), Absent, Absent, Absent, Absent, Absent, Absent, Absent)),
      Act(S("a9"), L("['x']"), S("CREATE"), S("ON_SUBMIT"), B("False"),
          Params(I("5"), Absent, Absent, Absent, Absent, Absent, Absent, Absent, Absent)),
      NullAction }

\* the owners extract_action_relationships is called for: <<source_id, source_name>>
Sources == { [id |-> S("1"), name |-> S("Intake")],
             [id |-> S(""), name |-> S("Unknown")],
             [id |-> S("1"), name |-> NoneV] }

(***************************************************************************)
(* extract_relationships, one step for every iteration of its loop.        *)
(***************************************************************************)
Idle == <<>>

InitExtract ==
    /\ op = "extract_relationships"
    /\ status = "running"
    /\ entity \in FormDefs
    /\ idx = 0
    /\ relationships = <<>>
    /\ actions = Idle
    /\ forms = Idle /\ actionMap = Idle /\ taskTypes = Idle
    /\ allRels = Idle /\ seen = {} /\ unique = Idle /\ first = Idle
    /\ solution = Idle /\ server = Idle /\ run = Idle
    /\ call = Idle /\ tasks = Idle /\ semaphore = Idle /\ finished = Idle /\ results = Idle
    /\ gForms = Idle /\ gWorkflows = Idle /\ gTaskTypes = Idle /\ gRels = Idle
    /\ gContainer = Idle /\ nodes = Idle /\ edges = Idle
    /\ order = Idle /\ edgeOrder = Idle /\ stats = Idle /\ neighbors = Idle

\* if not isinstance(fields, dict): return relationships
ExtractNotMapping ==
    /\ op = "extract_relationships" /\ status = "running"
    /\ entity.fieldsKind \notin {"absent", "dict"}
    /\ status' = "returned"
    /\ UNCHANGED <<op, extractVars, actionVars, runVars, fetchVars, analyzeVars, graphVars>>

\* one iteration of the loop that runs to its end
ExtractField ==
    /\ op = "extract_relationships" /\ status = "running"
    /\ entity.fieldsKind \in {"absent", "dict"}
    /\ idx < Len(entity.fields)
    /\ LET r == FieldBody(FormId(entity), FormName(entity),
                          entity.fields[idx + 1].id, entity.fields[idx + 1].f)
       IN  /\ ~r.raised
           /\ relationships' = relationships \o r.rels
    /\ idx' = idx + 1
    /\ UNCHANGED <<op, status, entity, actionVars, runVars, fetchVars, analyzeVars, graphVars>>

\* one iteration of the loop that an exception leaves
ExtractFieldRaises ==
    /\ op = "extract_relationships" /\ status = "running"
    /\ entity.fieldsKind \in {"absent", "dict"}
    /\ idx < Len(entity.fields)
    /\ FieldBody(FormId(entity), FormName(entity),
                 entity.fields[idx + 1].id, entity.fields[idx + 1].f).raised
    /\ status' = "raised"
    /\ UNCHANGED <<op, extractVars, actionVars, runVars, fetchVars, analyzeVars, graphVars>>

\* return relationships
ExtractReturn ==
    /\ op = "extract_relationships" /\ status = "running"
    /\ entity.fieldsKind \in {"absent", "dict"}
    /\ idx = Len(entity.fields)
    /\ status' = "returned"
    /\ UNCHANGED <<op, extractVars, actionVars, runVars, fetchVars, analyzeVars, graphVars>>

NextExtract == ExtractNotMapping \/ ExtractField \/ ExtractFieldRaises \/ ExtractReturn

SpecExtract == InitExtract /\ [][NextExtract]_vars

(***************************************************************************)
(* extract_action_relationships, one step for every iteration of its loop. *)
(***************************************************************************)
InitActions ==
    /\ op = "extract_action_relationships"
    /\ status = "running"
    /\ entity \in Sources
    /\ actions \in SeqsUpTo(Actions, MaxActions)
    /\ idx = 0
    /\ relationships = <<>>
    /\ forms = Idle /\ actionMap = Idle /\ taskTypes = Idle
    /\ allRels = Idle /\ seen = {} /\ unique = Idle /\ first = Idle
    /\ solution = Idle /\ server = Idle /\ run = Idle
    /\ call = Idle /\ tasks = Idle /\ semaphore = Idle /\ finished = Idle /\ results = Idle
    /\ gForms = Idle /\ gWorkflows = Idle /\ gTaskTypes = Idle /\ gRels = Idle
    /\ gContainer = Idle /\ nodes = Idle /\ edges = Idle
    /\ order = Idle /\ edgeOrder = Idle /\ stats = Idle /\ neighbors = Idle

ActionStep ==
    /\ op = "extract_action_relationships" /\ status = "running"
    /\ idx < Len(actions)
    /\ LET r == ActionBody(Str(entity.id), entity.name, actions[idx + 1])
       IN  /\ ~r.raised
           /\ relationships' = relationships \o r.rels
    /\ idx' = idx + 1
    /\ UNCHANGED <<op, status, entity, actionVars, runVars, fetchVars, analyzeVars, graphVars>>

ActionStepRaises ==
    /\ op = "extract_action_relationships" /\ status = "running"
    /\ idx < Len(actions)
    /\ ActionBody(Str(entity.id), entity.name, actions[idx + 1]).raised
    /\ status' = "raised"
    /\ UNCHANGED <<op, extractVars, actionVars, runVars, fetchVars, analyzeVars, graphVars>>

ActionsReturn ==
    /\ op = "extract_action_relationships" /\ status = "running"
    /\ idx = Len(actions)
    /\ status' = "returned"
    /\ UNCHANGED <<op, extractVars, actionVars, runVars, fetchVars, analyzeVars, graphVars>>

NextActions == ActionStep \/ ActionStepRaises \/ ActionsReturn

SpecActions == InitActions /\ [][NextActions]_vars

(***************************************************************************)
(* analyze_solution: one step for every form, every task type and every    *)
(* iteration of the deduplication loop.                                    *)
(***************************************************************************)
\* deduplication on every attribute of the relationship
DedupKey_AllFields(rel) == rel

\* the deduplication key of a relationship
DedupKey(rel) ==
    <<rel.source_id, rel.target_id, rel.target_type, rel.relationship_type,
      rel.field_name, rel.action_id>>

\* actions.get(object_id, []) of a mapping given as a sequence of items
RECURSIVE Lookup(_, _)
Lookup(items, key) ==
    IF items = <<>> THEN <<>>
    ELSE IF Head(items).key = key THEN Head(items).val
    ELSE Lookup(Tail(items), key)

\* the action relationships of one entity put before its field relationships
EntityRels_ActionsFirst(def, source_id, source_name) ==
    LET fr == extract_relationships(def)
        acts == IF actionMap.k = "dict" /\ actionMap.items # <<>>
                THEN Lookup(actionMap.items, source_id) ELSE <<>>
        ar == IF acts # <<>>
              THEN extract_action_relationships(source_id, source_name, acts)
              ELSE Emit(<<>>)
    IN  IF fr.raised \/ ar.raised THEN Raise ELSE Emit(ar.rels \o fr.rels)

\* the field relationships of one entity followed by its action relationships
EntityRels(def, source_id, source_name) ==
    LET fr == extract_relationships(def)
        acts == IF actionMap.k = "dict" /\ actionMap.items # <<>>
                THEN Lookup(actionMap.items, source_id) ELSE <<>>
        ar == IF acts # <<>>
              THEN extract_action_relationships(source_id, source_name, acts)
              ELSE Emit(<<>>)
    IN  IF fr.raised \/ ar.raised THEN Raise ELSE Emit(fr.rels \o ar.rels)

FormRels(form) == EntityRels(form, FormId(form), FormName(form))

TaskTypeRels(item) ==
    EntityRels(item.val, item.key, Get(item.val.name, S("Unknown Task Type")))

TaskTypeItems == IF taskTypes.k = "dict" THEN taskTypes.items ELSE <<>>

AnalyzeForm ==
    /\ op = "analyze_solution" /\ status = "forms"
    /\ idx < Len(forms)
    /\ ~FormRels(forms[idx + 1]).raised
    /\ allRels' = allRels \o FormRels(forms[idx + 1]).rels
    /\ idx' = idx + 1
    /\ UNCHANGED <<op, status, entity, relationships, actionVars, runVars, fetchVars, forms, actionMap,
                   taskTypes, seen, unique, first, graphVars>>

AnalyzeFormRaises ==
    /\ op = "analyze_solution" /\ status = "forms"
    /\ idx < Len(forms)
    /\ FormRels(forms[idx + 1]).raised
    /\ status' = "raised"
    /\ UNCHANGED <<op, extractVars, actionVars, runVars, fetchVars, analyzeVars, graphVars>>

AnalyzeFormsEnd ==
    /\ op = "analyze_solution" /\ status = "forms"
    /\ idx = Len(forms)
    /\ status' = "task_types"
    /\ idx' = 0
    /\ UNCHANGED <<op, entity, relationships, actionVars, runVars, fetchVars, analyzeVars, graphVars>>

AnalyzeTaskType ==
    /\ op = "analyze_solution" /\ status = "task_types"
    /\ idx < Len(TaskTypeItems)
    /\ ~TaskTypeRels(TaskTypeItems[idx + 1]).raised
    /\ allRels' = allRels \o TaskTypeRels(TaskTypeItems[idx + 1]).rels
    /\ idx' = idx + 1
    /\ UNCHANGED <<op, status, entity, relationships, actionVars, runVars, fetchVars, forms, actionMap,
                   taskTypes, seen, unique, first, graphVars>>

AnalyzeTaskTypeRaises ==
    /\ op = "analyze_solution" /\ status = "task_types"
    /\ idx < Len(TaskTypeItems)
    /\ TaskTypeRels(TaskTypeItems[idx + 1]).raised
    /\ status' = "raised"
    /\ UNCHANGED <<op, extractVars, actionVars, runVars, fetchVars, analyzeVars, graphVars>>

AnalyzeTaskTypesEnd ==
    /\ op = "analyze_solution" /\ status = "task_types"
    /\ idx = Len(TaskTypeItems)
    /\ status' = "dedup"
    /\ idx' = 0
    /\ UNCHANGED <<op, entity, relationships, actionVars, runVars, fetchVars, analyzeVars, graphVars>>

\* one iteration of: for rel in all_relationships
AnalyzeDedup ==
    /\ op = "analyze_solution" /\ status = "dedup"
    /\ idx < Len(allRels)
    /\ LET rel == allRels[idx + 1]
       IN  IF DedupKey(rel) \notin seen
           THEN /\ seen' = seen \cup {DedupKey(rel)}
                /\ unique' = Append(unique, rel)
           ELSE UNCHANGED <<seen, unique>>
    /\ idx' = idx + 1
    /\ UNCHANGED <<op, status, entity, relationships, actionVars, runVars, fetchVars, forms, actionMap,
                   taskTypes, allRels, first, graphVars>>

AnalyzeReturn ==
    /\ op = "analyze_solution" /\ status = "dedup"
    /\ idx = Len(allRels)
    /\ status' = "returned"
    /\ UNCHANGED <<op, extractVars, actionVars, runVars, fetchVars, analyzeVars, graphVars>>

\* seen as a call that keeps the set of the call before would start it
FreshSeen_Kept == seen

\* seen = set(): every call starts with its own empty set
FreshSeen == {}

\* no call of analyze_solution has returned yet
NoCall == [calls |-> 0]

\* what a returned call leaves with its caller: the list it returned and the
\* three arguments as they are after the call
Call(rels) ==
    [calls |-> 1, rels |-> rels, forms |-> forms, actionMap |-> actionMap,
     taskTypes |-> taskTypes]

\* the caller calls analyze_solution once more with the same three arguments:
\* all_relationships, seen and unique_relationships are locals of the call
AnalyzeAgain ==
    /\ op = "analyze_solution" /\ status = "returned"
    /\ first = NoCall
    /\ first' = Call(unique)
    /\ status' = "forms"
    /\ idx' = 0
    /\ allRels' = <<>> /\ seen' = FreshSeen /\ unique' = <<>>
    /\ UNCHANGED <<op, entity, relationships, actionVars, runVars, fetchVars, forms, actionMap,
                   taskTypes, graphVars>>

NextAnalyze ==
    \/ AnalyzeForm \/ AnalyzeFormRaises \/ AnalyzeFormsEnd
    \/ AnalyzeTaskType \/ AnalyzeTaskTypeRaises \/ AnalyzeTaskTypesEnd
    \/ AnalyzeDedup \/ AnalyzeReturn \/ AnalyzeAgain

\* Inputs of analyze_solution
Item(key, val) == [key |-> key, val |-> val]
Mapping(items) == [k |-> "dict", items |-> items]
NoMapping == [k |-> "none", items |-> <<>>]

RefParent1 == Fld(S(REFERENCE), S("Parent"), S("2"), SourceForm("dict", S("Parent Form")),
                  Props("dict", Absent, Absent, Absent, Absent, B("True")))
RefParent2 == Fld(S(REFERENCE), S("Parent"), S("2"), NoSourceForm, EmptyProps)
TaskField == Fld(S(TASK), S("Todo"), Absent, NoSourceForm,
                 Props("dict", Absent, Absent, S("77"), S("99"), Absent))
FlowField == Fld(S(WORKFLOW), S("Flow"), Absent, NoSourceForm,
                 Props("dict", S("9"), S("Approval"), Absent, Absent, Absent))
EmptyRef == Fld(S(LOOKUP), S("Parent"), S(""), NoSourceForm, NoProps)
BadFlow == Fld(S(WORKFLOW), S("Flow"), Absent, NoSourceForm, NullProps)
\* a field whose name is given as null
NullNameFlow == Fld(S(WORKFLOW), NoneV, Absent, NoSourceForm,
                    Props("dict", S("9"), S("Approval"), Absent, Absent, Absent))

AnalyzeForms ==
    { EntityDef([id |-> S("1"), name |-> S("Intake")], "dict", <<RefParent1, RefParent2>>),
      EntityDef([id |-> S("1"), name |-> S("Intake copy")], "dict", <<RefParent2, TaskField>>),
      EntityDef([id |-> S("2"), name |-> S("Parent Form")], "dict", <<EmptyRef, FlowField>>),
      EntityDef([id |-> Absent, name |-> Absent], "dict", <<TaskField>>),
      EntityDef([id |-> S("2"), name |-> S("Parent Form")], "dict", <<FlowField, BadFlow>>),
      EntityDef([id |-> S("3"), name |-> S("Orders")], "dict", <<NullNameFlow>>) }

CreateEntry == Act(S("a4"), S("Create"), S("CREATE"), S("ON_SUBMIT"), B("False"),
                   Params(I("5"), S("2"), Absent, Absent, Absent, Absent, Absent, Absent, Absent))
CreateEntryAgain == Act(S("a4"), S("Create again"), S("CREATE"), S("ON_SAVE"), B("True"),
                   Params(I("5"), S("2"), Absent, Absent, Absent, Absent, Absent, Absent, Absent))
InvokeAndLaunch == Act(S("a5"), S("Invoke"), S("INVOKE"), S("ON_SAVE"), B("True"),
                   Params(I("9"), Absent, S("9"), Absent, Absent, Absent, Absent, I("5"), S("50")))
CreateNothing == Act(S("a6"), S("Create"), S("CREATE"), S("ON_SUBMIT"), B("False"),
                   Params(I("5"), S(""), Absent, Absent, Absent, Absent, Absent, I("7"), Absent))
\* an action whose name, eventType and automatic are given as null
NullNameCreate == Act(S("a7"), NoneV, S("CREATE"), NoneV, NoneV,
                   Params(I("5"), S("2"), Absent, Absent, Absent, Absent, Absent, Absent, Absent))

ActionMaps ==
    { NoMapping,
      Mapping(<<>>),
      Mapping(<<Item("1", <<CreateEntry, CreateEntryAgain>>), Item("77", <<InvokeAndLaunch>>)>>),
      Mapping(<<Item("2", <<CreateNothing, InvokeAndLaunch>>), Item("1", <<>>)>>),
      Mapping(<<Item("1", <<InvokeAndLaunch, NullAction>>)>>),
      Mapping(<<Item("3", <<NullNameCreate>>)>>) }

TaskTypeMaps ==
    { NoMapping,
      Mapping(<<>>),
      Mapping(<<Item("77", EntityDef([id |-> S("1"), name |-> S("Todo")], "dict",
                                     <<RefParent2, FlowField>>))>>),
      Mapping(<<Item("77", EntityDef([id |-> S("500"), name |-> Absent], "dict",
                                     <<TaskField>>)),
                Item("78", EntityDef([id |-> S("78"), name |-> S("Other")], "none", <<>>))>>),
      Mapping(<<Item("77", EntityDef([id |-> S("77"), name |-> NoneV], "dict",
                                     <<FlowField>>))>>) }

InitAnalyze ==
    /\ op = "analyze_solution"
    /\ status = "forms"
    /\ forms \in SeqsUpTo(AnalyzeForms, MaxForms)
    /\ actionMap \in ActionMaps
    /\ taskTypes \in TaskTypeMaps
    /\ idx = 0
    /\ allRels = <<>> /\ seen = {} /\ unique = <<>>
    /\ first = NoCall
    /\ solution = Idle /\ server = Idle /\ run = Idle
    /\ call = Idle /\ tasks = Idle /\ semaphore = Idle /\ finished = Idle /\ results = Idle
    /\ entity = Idle /\ relationships = Idle /\ actions = Idle
    /\ gForms = Idle /\ gWorkflows = Idle /\ gTaskTypes = Idle /\ gRels = Idle
    /\ gContainer = Idle /\ nodes = Idle /\ edges = Idle
    /\ order = Idle /\ edgeOrder = Idle /\ stats = Idle /\ neighbors = Idle

SpecAnalyze == InitAnalyze /\ [][NextAnalyze]_vars

\* the three extraction operations together
SpecExtractors ==
    /\ InitExtract \/ InitActions \/ InitAnalyze
    /\ [][NextExtract \/ NextActions \/ NextAnalyze]_vars

(***************************************************************************)
(* graph.py: build_graph on a networkx DiGraph.  An attribute dictionary   *)
(* is a record over all attribute names in which Unset marks a key the     *)
(* dictionary does not have.                                               *)
(***************************************************************************)
Unset == "<unset>"

NoNodeAttrs ==
    [name |-> Unset, node_type |-> Unset, external |-> Unset, container_id |-> Unset]
NoEdgeAttrs ==
    [relationship_type |-> Unset, field_name |-> Unset, target_type |-> Unset,
     edge_category |-> Unset, action_id |-> Unset, action_name |-> Unset,
     trigger_type |-> Unset, automatic |-> Unset, is_subform |-> Unset]

\* dict.update(attr): the keys of attr are written, the others are kept
Update(old, attr) == [a \in DOMAIN old |-> IF attr[a] # Unset THEN attr[a] ELSE old[a]]

\* DiGraph.add_node(n, **attr)
AddNode(ns, n, attr) ==
    [x \in DOMAIN ns \cup {n} |->
        IF x = n THEN Update(IF n \in DOMAIN ns THEN ns[n] ELSE NoNodeAttrs, attr)
        ELSE ns[x]]

\* the insertion order of the node dictionary after a node is written
Inserted(ord, n) ==
    IF \E i \in DOMAIN ord : ord[i] = n THEN ord ELSE Append(ord, n)

\* Graph.add_edge(u, v, **attr): an edge of an undirected graph
AddEdge_Undirected(es, u, v, attr) ==
    IF <<v, u>> \in DOMAIN es
    THEN [es EXCEPT ![<<v, u>>] = Update(es[<<v, u>>], attr)]
    ELSE [e \in DOMAIN es \cup {<<u, v>>} |->
            IF e = <<u, v>>
            THEN Update(IF e \in DOMAIN es THEN es[e] ELSE NoEdgeAttrs, attr)
            ELSE es[e]]

\* DiGraph.add_edge(u, v, **attr)
AddEdge(es, u, v, attr) ==
    [e \in DOMAIN es \cup {<<u, v>>} |->
        IF e = <<u, v>>
        THEN Update(IF e \in DOMAIN es THEN es[e] ELSE NoEdgeAttrs, attr)
        ELSE es[e]]

\* a or b
Or2(a, b) == IF Truthy(a) THEN a ELSE b

\* str(container_id) if container_id else None
ContainerStr(c) == IF Truthy(c) THEN Str(c) ELSE Null

\* the node keyed by id alone
FormNodeId_IdOnly(form) == Str(Get(form.id, NoneV))

FormNodeId(form) == Str(Or2(Get(form.id, NoneV), Get(form.formId, NoneV)))
WorkflowNodeId(workflow) == Str(Or2(Get(workflow.id, NoneV), Get(workflow.processId, NoneV)))
\* the node keyed by the internal id of the task type
TaskTypeNodeId_ById(task_type) == Str(Get(task_type.id, NoneV))

TaskTypeNodeId(task_type) == Str(Get(task_type.categoryId, NoneV))

FormNodeAttrs(form, solution_container_id) ==
    [name |-> Opt(Get(form.name, S("Unknown"))),
     node_type |-> "form",
     external |-> Opt(Get(form.external, B("False"))),
     container_id |-> ContainerStr(Or2(Get(form.containerId, NoneV), solution_container_id))]

WorkflowNodeAttrs(workflow, solution_container_id) ==
    [name |-> Opt(Get(workflow.name, S("Unknown"))),
     node_type |-> "workflow",
     external |-> Unset,
     container_id |->
        ContainerStr(Or2(Get(workflow.containerId, NoneV), solution_container_id))]

TaskTypeNodeAttrs(task_type) ==
    [name |-> Opt(Get(task_type.name, S("Unknown"))),
     node_type |-> "task_type",
     external |-> Opt(Get(task_type.external, B("False"))),
     container_id |->
        ContainerStr(IF task_type.container.k = "dict"
                     THEN Get(task_type.container.id, NoneV) ELSE NoneV)]

\* edge_data that names the category of action relationships only
EdgeData_ActionOnly(rel) ==
    LET has_action == rel.action_id \notin {Null, ""}
    IN  [relationship_type |-> rel.relationship_type,
         field_name |-> rel.field_name,
         target_type |-> rel.target_type,
         edge_category |-> IF has_action THEN "action" ELSE Unset,
         action_id |-> IF has_action THEN rel.action_id ELSE Unset,
         action_name |-> IF has_action THEN rel.action_name ELSE Unset,
         trigger_type |-> IF has_action THEN rel.trigger_type ELSE Unset,
         automatic |-> IF has_action THEN rel.automatic ELSE Unset,
         is_subform |-> IF rel.is_subform # Null THEN rel.is_subform ELSE Unset]

\* edge_data of one relationship
EdgeData(rel) ==
    LET has_action == rel.action_id \notin {Null, ""}
    IN  [relationship_type |-> rel.relationship_type,
         field_name |-> rel.field_name,
         target_type |-> rel.target_type,
         edge_category |-> IF has_action THEN "action" ELSE "field",
         action_id |-> IF has_action THEN rel.action_id ELSE Unset,
         action_name |-> IF has_action THEN rel.action_name ELSE Unset,
         trigger_type |-> IF has_action THEN rel.trigger_type ELSE Unset,
         automatic |-> IF has_action THEN rel.automatic ELSE Unset,
         is_subform |-> IF rel.is_subform # Null THEN rel.is_subform ELSE Unset]

\* the position of the four loops of build_graph
NForms == Len(gForms)
NWorkflows == Len(gWorkflows)
NTaskTypes == Len(gTaskTypes)
NEntities == NForms + NWorkflows + NTaskTypes

GraphRunning == op = "build_graph" /\ status = "running"

GraphAddForm ==
    /\ GraphRunning
    /\ idx < NForms
    /\ nodes' = AddNode(nodes, FormNodeId(gForms[idx + 1]),
                        FormNodeAttrs(gForms[idx + 1], gContainer))
    /\ order' = Inserted(order, FormNodeId(gForms[idx + 1]))
    /\ idx' = idx + 1
    /\ UNCHANGED <<op, status, entity, relationships, actionVars, runVars, fetchVars, analyzeVars,
                   gForms, gWorkflows, gTaskTypes, gRels, gContainer, edges, edgeOrder,
                   stats, neighbors>>

GraphAddWorkflow ==
    /\ GraphRunning
    /\ NForms <= idx /\ idx < NForms + NWorkflows
    /\ nodes' = AddNode(nodes, WorkflowNodeId(gWorkflows[idx - NForms + 1]),
                        WorkflowNodeAttrs(gWorkflows[idx - NForms + 1], gContainer))
    /\ order' = Inserted(order, WorkflowNodeId(gWorkflows[idx - NForms + 1]))
    /\ idx' = idx + 1
    /\ UNCHANGED <<op, status, entity, relationships, actionVars, runVars, fetchVars, analyzeVars,
                   gForms, gWorkflows, gTaskTypes, gRels, gContainer, edges, edgeOrder,
                   stats, neighbors>>

GraphAddTaskType ==
    /\ GraphRunning
    /\ NForms + NWorkflows <= idx /\ idx < NEntities
    /\ LET task_type == gTaskTypes[idx - NForms - NWorkflows + 1]
       IN  /\ IsMapping(task_type.container)
           /\ nodes' = AddNode(nodes, TaskTypeNodeId(task_type), TaskTypeNodeAttrs(task_type))
           /\ order' = Inserted(order, TaskTypeNodeId(task_type))
    /\ idx' = idx + 1
    /\ UNCHANGED <<op, status, entity, relationships, actionVars, runVars, fetchVars, analyzeVars,
                   gForms, gWorkflows, gTaskTypes, gRels, gContainer, edges, edgeOrder,
                   stats, neighbors>>

\* task_type.get("container", {}).get("id") on a container that is no mapping
GraphAddTaskTypeRaises ==
    /\ GraphRunning
    /\ NForms + NWorkflows <= idx /\ idx < NEntities
    /\ ~IsMapping(gTaskTypes[idx - NForms - NWorkflows + 1].container)
    /\ status' = "raised"
    /\ UNCHANGED <<op, extractVars, actionVars, runVars, fetchVars, analyzeVars, graphVars>>

GraphAddEdge ==
    /\ GraphRunning
    /\ NEntities <= idx /\ idx < NEntities + Len(gRels)
    /\ LET rel == gRels[idx - NEntities + 1]
       IN  /\ edges' = AddEdge(edges, rel.source_id, rel.target_id, EdgeData(rel))
           /\ nodes' = AddNode(AddNode(nodes, rel.source_id, NoNodeAttrs),
                               rel.target_id, NoNodeAttrs)
           /\ order' = Inserted(Inserted(order, rel.source_id), rel.target_id)
           /\ edgeOrder' = Inserted(edgeOrder, <<rel.source_id, rel.target_id>>)
    /\ idx' = idx + 1
    /\ UNCHANGED <<op, status, entity, relationships, actionVars, runVars, fetchVars, analyzeVars,
                   gForms, gWorkflows, gTaskTypes, gRels, gContainer, stats, neighbors>>

GraphReturn ==
    /\ GraphRunning
    /\ idx = NEntities + Len(gRels)
    /\ status' = "returned"
    /\ UNCHANGED <<op, extractVars, actionVars, runVars, fetchVars, analyzeVars, graphVars>>

(***************************************************************************)
(* graph.py: get_graph_stats on the graph build_graph returned.            *)
(***************************************************************************)
\* [n for n, d in graph.nodes(data=True) if d.get("node_type") == t]
NodesOfType(t) == {n \in DOMAIN nodes : nodes[n].node_type = t}

\* data.get("relationship_type", "unknown")
RelTypeOf(e) ==
    IF edges[e].relationship_type = Unset THEN "unknown" ELSE edges[e].relationship_type

\* edge_types: the number of edges under each relationship type that occurs
EdgeTypes ==
    [t \in {RelTypeOf(e) : e \in DOMAIN edges} |->
        Cardinality({e \in DOMAIN edges : RelTypeOf(e) = t})]

EdgesOfCategory(c) == Cardinality({e \in DOMAIN edges : edges[e].edge_category = c})

\* graph.in_degree() and graph.out_degree()
InDegree(n) == Cardinality({e \in DOMAIN edges : e[2] = n})
OutDegree(n) == Cardinality({e \in DOMAIN edges : e[1] = n})

\* nx.isolates(graph): the nodes of degree 0
Isolates == {n \in DOMAIN nodes : InDegree(n) + OutDegree(n) = 0}

\* the nodes one edge away from a set of nodes, direction ignored
RECURSIVE Component(_)
Component(found) ==
    LET more == found \cup {n \in DOMAIN nodes :
                    \E m \in found : <<m, n>> \in DOMAIN edges \/ <<n, m>> \in DOMAIN edges}
    IN  IF more = found THEN found ELSE Component(more)

\* nx.number_weakly_connected_components(graph)
WeaklyConnectedComponents == Cardinality({Component({n}) : n \in DOMAIN nodes})

\* sorted(degrees, key=lambda x: x[1], reverse=True): by count, largest
\* first, nodes of equal count in the order of the node dictionary
Position(n) == CHOOSE i \in DOMAIN order : order[i] = n
\* the sort without reverse=True: smallest count first
Before_Ascending(count, m, n) ==
    count[m] < count[n] \/ (count[m] = count[n] /\ Position(m) < Position(n))

Before(count, m, n) ==
    count[m] > count[n] \/ (count[m] = count[n] /\ Position(m) < Position(n))
Sorted(count) ==
    [i \in 1..Len(order) |->
        CHOOSE n \in DOMAIN nodes :
            Cardinality({m \in DOMAIN nodes : Before(count, m, n)}) = i - 1]

\* [{"id": n, "name": ..., "count": c} for n, c in degrees[:5] if c > 0]
RECURSIVE Listed(_, _, _)
Listed(ranked, count, i) ==
    IF i > Len(ranked) \/ i > 5 THEN <<>>
    ELSE (IF count[ranked[i]] > 0
          THEN <<[id |-> ranked[i],
                  name |-> IF nodes[ranked[i]].name = Unset THEN Null
                           ELSE nodes[ranked[i]].name,
                  count |-> count[ranked[i]]]>>
          ELSE <<>>) \o Listed(ranked, count, i + 1)

MostConnected(count) == Listed(Sorted(count), count, 1)

GraphStats ==
    [total_nodes |-> Cardinality(DOMAIN nodes),
     form_count |-> Cardinality(NodesOfType("form")),
     workflow_count |-> Cardinality(NodesOfType("workflow")),
     task_type_count |-> Cardinality(NodesOfType("task_type")),
     total_edges |-> Cardinality(DOMAIN edges),
     action_edges |-> EdgesOfCategory("action"),
     field_edges |-> EdgesOfCategory("field"),
     edge_types |-> EdgeTypes,
     isolated_nodes |-> Cardinality(Isolates),
     connected_components |-> WeaklyConnectedComponents,
     most_referenced |-> MostConnected([n \in DOMAIN nodes |-> InDegree(n)]),
     most_referencing |-> MostConnected([n \in DOMAIN nodes |-> OutDegree(n)])]

\* get_graph_stats(graph) on the graph build_graph returned
GetGraphStats ==
    /\ op = "build_graph" /\ status = "returned"
    /\ op' = "get_graph_stats"
    /\ stats' = GraphStats
    /\ UNCHANGED <<status, extractVars, actionVars, runVars, fetchVars, analyzeVars, gForms, gWorkflows,
                   gTaskTypes, gRels, gContainer, nodes, edges, order, edgeOrder,
                   neighbors>>

(***************************************************************************)
(* graph.py: get_node_neighbors on the graph build_graph returned.         *)
(***************************************************************************)
\* the ids asked for: nodes of some graphs, and an id that is never a node
NodeIds == {"1", "2", "9", "404"}

\* the entry that names the node asked for in the place of its neighbour
NeighborEntry_Self(node_id, other, e) ==
    [id |-> node_id,
     name |-> IF nodes[node_id].name = Unset THEN Null ELSE nodes[node_id].name,
     relationship |-> IF edges[e].relationship_type = Unset THEN Null
                      ELSE edges[e].relationship_type,
     field |-> IF edges[e].field_name = Unset THEN Null ELSE edges[e].field_name]

\* {"id": ..., "name": ..., "relationship": ..., "field": ...} for the
\* neighbour other of node_id over the edge e
NeighborEntry(node_id, other, e) ==
    [id |-> other,
     name |-> IF nodes[other].name = Unset THEN Null ELSE nodes[other].name,
     relationship |-> IF edges[e].relationship_type = Unset THEN Null
                      ELSE edges[e].relationship_type,
     field |-> IF edges[e].field_name = Unset THEN Null ELSE edges[e].field_name]

\* for pred in graph.predecessors(node_id): in the order the edges were made
RECURSIVE Predecessors(_, _)
Predecessors(node_id, i) ==
    IF i > Len(edgeOrder) THEN <<>>
    ELSE (IF edgeOrder[i][2] = node_id
          THEN <<NeighborEntry(node_id, edgeOrder[i][1], edgeOrder[i])>>
          ELSE <<>>) \o Predecessors(node_id, i + 1)

\* for succ in graph.successors(node_id)
RECURSIVE Successors(_, _)
Successors(node_id, i) ==
    IF i > Len(edgeOrder) THEN <<>>
    ELSE (IF edgeOrder[i][1] = node_id
          THEN <<NeighborEntry(node_id, edgeOrder[i][2], edgeOrder[i])>>
          ELSE <<>>) \o Successors(node_id, i + 1)

NodeNeighbors(node_id) ==
    IF node_id \notin DOMAIN nodes
    THEN [error |-> "Node " \o node_id \o " not found"]
    ELSE [id |-> node_id,
          name |-> IF nodes[node_id].name = Unset THEN Null ELSE nodes[node_id].name,
          type |-> IF nodes[node_id].node_type = Unset THEN Null
                   ELSE nodes[node_id].node_type,
          referenced_by |-> Predecessors(node_id, 1),
          references |-> Successors(node_id, 1)]

\* get_node_neighbors(graph, node_id) on the graph build_graph returned
GetNodeNeighbors ==
    /\ op = "build_graph" /\ status = "returned"
    /\ \E node_id \in NodeIds :
          /\ neighbors' = [asked |-> node_id, result |-> NodeNeighbors(node_id)]
    /\ op' = "get_node_neighbors"
    /\ UNCHANGED <<status, extractVars, actionVars, runVars, fetchVars, analyzeVars, gForms, gWorkflows,
                   gTaskTypes, gRels, gContainer, nodes, edges, order, edgeOrder,
                   stats>>

NextGraph ==
    \/ GraphAddForm \/ GraphAddWorkflow \/ GraphAddTaskType \/ GraphAddTaskTypeRaises
    \/ GraphAddEdge \/ GraphReturn \/ GetGraphStats \/ GetNodeNeighbors

\* Inputs of build_graph
GForm(id, formId, name, external, containerId) ==
    [id |-> id, formId |-> formId, name |-> name, external |-> external,
     containerId |-> containerId]
GWorkflow(id, processId, name, containerId) ==
    [id |-> id, processId |-> processId, name |-> name, containerId |-> containerId]
GTaskType(categoryId, id, name, external, container) ==
    [categoryId |-> categoryId, id |-> id, name |-> name, external |-> external,
     container |-> container]
Container(k, id) == [k |-> k, id |-> id]

GForms ==
    { GForm(S("1"), Absent, S("Intake"), Absent, Absent),
      GForm(Absent, I("2"), Absent, B("True"), S("200")) }

GWorkflowLists ==
    { <<>>,
      <<GWorkflow(S("9"), Absent, S("Approval"), Absent)>>,
      <<GWorkflow(Absent, S("2"), S("Parent flow"), Absent),
        GWorkflow(Absent, Absent, Absent, S("300"))>> }

GTaskTypeLists ==
    { <<>>,
      <<GTaskType(S("42"), S("7"), S("Todo"), B("True"), Container("dict", S("99")))>>,
      <<GTaskType(I("77"), S("1"), Absent, Absent, Container("absent", Absent)),
        GTaskType(Absent, S("8"), S("Lost"), Absent, Container("dict", Absent))>>,
      <<GTaskType(S("42"), S("7"), S("Todo"), Absent, Container("none", Absent))>> }

FieldRel(sid, tid, ttype, rtype, fname, subform) ==
    [Relationship(sid, "Intake", tid, Null, ttype, rtype, fname)
     EXCEPT !.is_subform = subform]
ActionRel(sid, tid, ttype, rtype, aid) ==
    [Relationship(sid, "Intake", tid, Null, ttype, rtype, Null)
     EXCEPT !.action_id = aid, !.action_name = "Create", !.trigger_type = "ON_SUBMIT",
            !.automatic = "False"]

GRels ==
    { FieldRel("1", "2", "form", REFERENCE, "Parent", "True"),
      FieldRel("1", "2", "form", LOOKUP, "Look", Null),
      ActionRel("1", "2", "form", ACTION_CREATES_ENTRY, "a4"),
      FieldRel("2", "1", "form", FORM_ENTRY, "Back", Null),
      FieldRel("1", "9", "workflow", WORKFLOW, "Flow", Null),
      ActionRel("1", "50", "template", ACTION_LAUNCHES_TEMPLATE, "a7"),
      FieldRel("42", "42", "task_type", TASK, "Todo", Null) }

InitGraph ==
    /\ op = "build_graph"
    /\ status = "running"
    /\ gForms \in SeqsUpTo(GForms, MaxForms)
    /\ gWorkflows \in GWorkflowLists
    /\ gTaskTypes \in GTaskTypeLists
    /\ gRels \in SeqsUpTo(GRels, MaxRels)
    /\ gContainer \in {NoneV, S("100")}
    /\ idx = 0
    /\ nodes = <<>>
    /\ edges = <<>>
    /\ order = <<>>
    /\ edgeOrder = <<>>
    /\ stats = Idle /\ neighbors = Idle
    /\ entity = Idle /\ relationships = Idle /\ actions = Idle
    /\ forms = Idle /\ actionMap = Idle /\ taskTypes = Idle
    /\ allRels = Idle /\ seen = {} /\ unique = Idle /\ first = Idle
    /\ solution = Idle /\ server = Idle /\ run = Idle
    /\ call = Idle /\ tasks = Idle /\ semaphore = Idle /\ finished = Idle /\ results = Idle

SpecGraph == InitGraph /\ [][NextGraph]_vars

\* build_graph and get_graph_stats on longer relationship lists: the
\* relationships between the pairs of a stretch of Pairs
Pairs ==
    << <<"1", "2">>, <<"3", "2">>, <<"1", "3">>, <<"2", "4">>, <<"4", "5">>,
       <<"5", "6">>, <<"6", "7">>, <<"7", "8">>, <<"8", "9">>, <<"9", "1">> >>

PairRel(i) ==
    IF i % 3 = 0
    THEN ActionRel(Pairs[i][1], Pairs[i][2], "form", ACTION_CREATES_ENTRY, "a4")
    ELSE FieldRel(Pairs[i][1], Pairs[i][2], "form", LOOKUP, "Look", Null)

\* the first pair and the length of every stretch of at most MaxEdges pairs
StretchBounds ==
    {x \in (1..Len(Pairs)) \X (0..MaxEdges) : x[1] + x[2] - 1 <= Len(Pairs)}

Stretches == { [i \in 1..x[2] |-> PairRel(x[1] + i - 1)] : x \in StretchBounds }

InitStats ==
    /\ op = "build_graph"
    /\ status = "running"
    /\ gForms \in SeqsUpTo(GForms, 1)
    /\ gWorkflows \in GWorkflowLists
    /\ gTaskTypes \in GTaskTypeLists
    /\ gRels \in Stretches
    /\ gContainer = NoneV
    /\ idx = 0
    /\ nodes = <<>>
    /\ edges = <<>>
    /\ order = <<>>
    /\ edgeOrder = <<>>
    /\ stats = Idle /\ neighbors = Idle
    /\ entity = Idle /\ relationships = Idle /\ actions = Idle
    /\ forms = Idle /\ actionMap = Idle /\ taskTypes = Idle
    /\ allRels = Idle /\ seen = {} /\ unique = Idle /\ first = Idle
    /\ solution = Idle /\ server = Idle /\ run = Idle
    /\ call = Idle /\ tasks = Idle /\ semaphore = Idle /\ finished = Idle /\ results = Idle

SpecStats == InitStats /\ [][NextGraph]_vars

\* the extraction operations and build_graph together
SpecMapper ==
    /\ InitExtract \/ InitActions \/ InitAnalyze \/ InitGraph
    /\ [][NextExtract \/ NextActions \/ NextAnalyze \/ NextGraph]_vars

(***************************************************************************)
(* cli.py: run_map from the return of fetch_solution to the statistics of  *)
(* the graph.  forms is solution["form_definitions"], actionMap is the     *)
(* actions mapping, taskTypes is task_types_by_id, relationships is the    *)
(* list of the same name; the client is the record server, which answers   *)
(* a request for a task type or a form with a definition or with NoAnswer. *)
(***************************************************************************)
\* analyze_solution as a function of the form definitions and the items of
\* the task type mapping, the actions being actionMap
\* the one element of a set of one element: a local that is computed once
Only(set) == CHOOSE x \in set : TRUE

RECURSIVE RelsOfForms(_)
RelsOfForms(fs) ==
    IF fs = <<>> THEN Emit(<<>>)
    ELSE Only({IF h.raised \/ t.raised THEN Raise ELSE Emit(h.rels \o t.rels) :
                  h \in {FormRels(Head(fs))}, t \in {RelsOfForms(Tail(fs))}})

RECURSIVE RelsOfTaskTypes(_)
RelsOfTaskTypes(items) ==
    IF items = <<>> THEN Emit(<<>>)
    ELSE Only({IF h.raised \/ t.raised THEN Raise ELSE Emit(h.rels \o t.rels) :
                  h \in {TaskTypeRels(Head(items))}, t \in {RelsOfTaskTypes(Tail(items))}})

RECURSIVE Deduplicated(_, _, _)
Deduplicated(rs, keys, kept) ==
    IF rs = <<>> THEN kept
    ELSE IF DedupKey(Head(rs)) \in keys THEN Deduplicated(Tail(rs), keys, kept)
    ELSE Deduplicated(Tail(rs), keys \cup {DedupKey(Head(rs))}, Append(kept, Head(rs)))

analyze_solution(fs, items) ==
    Only({IF f.raised \/ t.raised THEN Raise
          ELSE Only({Emit(Deduplicated(all_relationships, {}, <<>>)) :
                        all_relationships \in {f.rels \o t.rels}}) :
             f \in {RelsOfForms(fs)}, t \in {RelsOfTaskTypes(items)}})

\* the client has no answer: the request fails or names nothing
NoAnswer == [answer |-> FALSE]

\* a task type definition (the category object of the task creation endpoint)
TaskTypeDef(categoryId, id, name, container, fs) ==
    [answer |-> TRUE, categoryId |-> categoryId, id |-> id, name |-> name,
     external |-> Absent, container |-> container, formType |-> Absent,
     fieldsKind |-> "dict", fields |-> FieldItems(fs)]

\* fetch_task_type_definition: the category object, or None
fetch_task_type_definition(task_type_id) ==
    IF task_type_id \in DOMAIN server.task_types
    THEN server.task_types[task_type_id] ELSE NoAnswer

\* dict[key] = val on a mapping kept as a sequence of items: a key the
\* mapping has keeps its place
RECURSIVE Stored(_, _, _)
Stored(items, key, val) ==
    IF items = <<>> THEN <<Item(key, val)>>
    ELSE IF Head(items).key = key THEN <<Item(key, val)>> \o Tail(items)
    ELSE <<Head(items)>> \o Stored(Tail(items), key, val)

\* fetch_all_task_type_definitions: the definitions that are not None, by id
RECURSIVE fetch_all_task_type_definitions(_, _)
fetch_all_task_type_definitions(task_type_refs, found) ==
    IF task_type_refs = <<>> THEN found
    ELSE LET definition == fetch_task_type_definition(Head(task_type_refs)[1])
         IN  fetch_all_task_type_definitions(Tail(task_type_refs),
                 IF definition.answer
                 THEN Stored(found, Head(task_type_refs)[1], definition)
                 ELSE found)

\* the values of a mapping, in its order
Values(items) == [i \in DOMAIN items |-> items[i].val]

\* {str(tt.get("categoryId")): tt for tt in all_task_types}
RECURSIVE ByCategoryId(_, _)
ByCategoryId(tts, found) ==
    IF tts = <<>> THEN found
    ELSE ByCategoryId(Tail(tts),
                      Stored(found, Str(Get(Head(tts).categoryId, NoneV)), Head(tts)))

\* the orders in which a set can be iterated
Orders(set) ==
    {o \in [1..Cardinality(set) -> set] : \A x \in set : \E i \in DOMAIN o : o[i] = x}

(***************************************************************************)
(* fetcher.py: fetch_external_task_types and fetch_external_forms as       *)
(* functions of the order in which the set of references is iterated.      *)
(***************************************************************************)
\* the external mark set whenever the definition names a container
MarkedExternal_AnyContainer(task_type, solution_container_id) ==
    LET task_type_container == Get(task_type.container.id, NoneV)
    IN  IF task_type_container.k \notin {"absent", "none"}
        THEN [task_type EXCEPT !.external = B("True")]
        ELSE task_type

\* if task_type_container and str(task_type_container) !=
\* str(solution_container_id): task_type["external"] = True
MarkedExternal(task_type, solution_container_id) ==
    LET task_type_container == Get(task_type.container.id, NoneV)
    IN  IF Truthy(task_type_container)
           /\ Str(task_type_container) # solution_container_id
        THEN [task_type EXCEPT !.external = B("True")]
        ELSE task_type

\* if "formType" not in task_type: task_type["formType"] = "TASK"
WithFormType(task_type) ==
    IF task_type.formType = Absent THEN [task_type EXCEPT !.formType = S("TASK")]
    ELSE task_type

\* fetch_one of fetch_external_task_types: <<>> for None
fetch_one(task_type_id, solution_container_id) ==
    LET task_type == fetch_task_type_definition(task_type_id)
    IN  IF ~task_type.answer THEN Emit(<<>>)
        ELSE IF ~IsMapping(task_type.container) THEN Raise
        ELSE Emit(<<WithFormType(MarkedExternal(task_type, solution_container_id))>>)

\* [(tt_id, c_id) for tt_id, c_id in task_type_refs if tt_id not in existing]
MissingRefs(task_type_refs, existing_task_type_ids) ==
    SelectSeq(task_type_refs, LAMBDA ref : ref[1] \notin existing_task_type_ids)

RECURSIVE FetchEach(_, _)
FetchEach(missing_refs, solution_container_id) ==
    IF missing_refs = <<>> THEN Emit(<<>>)
    ELSE Only({IF h.raised \/ t.raised THEN Raise ELSE Emit(h.rels \o t.rels) :
                  h \in {fetch_one(Head(missing_refs)[1], solution_container_id)},
                  t \in {FetchEach(Tail(missing_refs), solution_container_id)}})

\* fetch_external_task_types: the task types fetched, in the field rels, for
\* the references in the order given
fetch_external_task_types(task_type_refs, existing_task_type_ids, solution_container_id) ==
    FetchEach(MissingRefs(task_type_refs, existing_task_type_ids), solution_container_id)

\* {(r.target_id, r.target_container_id) for r in relationships
\*  if r.target_type == "task_type" and r.target_container_id}
TaskTypeRefs(rels) ==
    {<<rels[i].target_id, rels[i].target_container_id>> :
        i \in {j \in DOMAIN rels : /\ rels[j].target_type = "task_type"
                                   /\ rels[j].target_container_id \notin {Null, ""}}}

\* {r.target_id for r in relationships if r.target_type == "form"}
get_referenced_ids(rels) ==
    {rels[i].target_id : i \in {j \in DOMAIN rels : rels[j].target_type = "form"}}

\* fetch_external_forms: the forms the client answers with, marked
\* external, for the missing ids in the order given
RECURSIVE fetch_external_forms(_)
fetch_external_forms(missing_ids) ==
    IF missing_ids = <<>> THEN <<>>
    ELSE LET form_id == Head(missing_ids)
             form == IF form_id \in DOMAIN server.forms
                     THEN server.forms[form_id] ELSE NoAnswer
         IN  (IF form.answer THEN <<[form EXCEPT !.external = B("True")]>> ELSE <<>>)
             \o fetch_external_forms(Tail(missing_ids))

(***************************************************************************)
(* cli.py: the steps of run_map.                                           *)
(***************************************************************************)
RoomId == "100"

\* all_task_types.extend(more_task_types) left out
Extended_Dropped(all_task_types, more_task_types) == all_task_types

\* all_task_types.extend(more_task_types)
Extended(all_task_types, more_task_types) == all_task_types \o more_task_types

\* (rel.source_id, rel.target_id, rel.field_name, rel.action_id)
MergeKey(rel) == <<rel.source_id, rel.target_id, rel.field_name, rel.action_id>>

\* the merge loop of run_map: rels with the relationships of more whose key
\* is new appended
RECURSIVE Merged(_, _, _)
Merged(rels, more, existing_rel_keys) ==
    IF more = <<>> THEN rels
    ELSE IF MergeKey(Head(more)) \in existing_rel_keys
         THEN Merged(rels, Tail(more), existing_rel_keys)
    ELSE Merged(Append(rels, Head(more)), Tail(more),
                existing_rel_keys \cup {MergeKey(Head(more))})

\* the keys of a mapping kept as a sequence of items
Keys(items) == {items[i].key : i \in DOMAIN items}

\* the ids fetch_external_task_types asks the client for
Requested(task_type_refs, existing_task_type_ids) ==
    LET missing_refs == MissingRefs(task_type_refs, existing_task_type_ids)
    IN  [i \in DOMAIN missing_refs |-> missing_refs[i][1]]

\* one call of fetch_external_task_types: what it was given, the ids it
\* asked the client for, and what it returned
FetchCall(task_type_refs, existing_task_type_ids, result) ==
    [existing |-> existing_task_type_ids,
     requested |-> Requested(task_type_refs, existing_task_type_ids),
     raised |-> result.raised, returned |-> result.rels]

\* the locals of run_map before its first step
NoLocals ==
    [solution_task_types |-> <<>>, all_task_types |-> <<>>,
     task_type_relationships |-> <<>>, more_task_types |-> <<>>,
     calls |-> 0, analyzed |-> {}, fetches |-> <<>>]

\* lines 73-96: the definitions of the task types the solution lists
RunTaskTypeDefinitions ==
    /\ op = "run_map" /\ status = "fetched"
    /\ LET task_types_list == solution.task_types
           task_type_refs ==
               [i \in DOMAIN task_types_list |->
                   <<Str(Get(task_types_list[i].categoryId, NoneV)),
                     Str(Get(task_types_list[i].container.id, S(RoomId)))>>]
       IN  IF \E i \in DOMAIN task_types_list : ~IsMapping(task_types_list[i].container)
           THEN /\ status' = "failed"
                /\ run' = run
           ELSE /\ status' = "definitions"
                /\ run' = [run EXCEPT !.solution_task_types =
                             Values(fetch_all_task_type_definitions(task_type_refs, <<>>))]
    /\ UNCHANGED <<op, entity, idx, relationships, actionVars, analyzeVars, graphVars,
                   solution, server, fetchVars>>

\* lines 99-105: the first call of analyze_solution, without task types
RunFirstAnalysis ==
    /\ op = "run_map" /\ status = "definitions"
    /\ \E result \in {analyze_solution(solution.form_definitions, <<>>)} :
           IF result.raised
           THEN /\ status' = "failed"
                /\ UNCHANGED <<relationships, run>>
           ELSE /\ status' = "first"
                /\ relationships' = result.rels
                /\ run' = [run EXCEPT !.calls = @ + 1]
    /\ UNCHANGED <<op, entity, idx, actionVars, analyzeVars, graphVars, solution, server, fetchVars>>

\* lines 108-126: the task types the relationships name are fetched
RunExternalTaskTypes ==
    /\ op = "run_map" /\ status = "first"
    /\ \E task_type_refs \in Orders(TaskTypeRefs(relationships)) :
        LET existing_task_type_ids ==
                {Str(Get(run.solution_task_types[i].categoryId, NoneV)) :
                    i \in DOMAIN run.solution_task_types}
        IN  \E external_task_types \in
                {fetch_external_task_types(task_type_refs, existing_task_type_ids, RoomId)} :
            \E all_task_types \in {run.solution_task_types \o external_task_types.rels} :
            IF external_task_types.raised
            THEN /\ status' = "failed"
                 /\ run' = [run EXCEPT
                              !.fetches = Append(@, FetchCall(task_type_refs,
                                              existing_task_type_ids, external_task_types))]
                 /\ UNCHANGED taskTypes
            ELSE /\ status' = "types"
                 /\ run' = [run EXCEPT
                              !.all_task_types = all_task_types,
                              !.fetches = Append(@, FetchCall(task_type_refs,
                                              existing_task_type_ids, external_task_types))]
                 /\ taskTypes' = Mapping(ByCategoryId(all_task_types, <<>>))
    /\ UNCHANGED <<op, entity, idx, relationships, actionVars, forms, actionMap, allRels,
                   seen, unique, first, graphVars, solution, server, fetchVars>>

\* lines 130-138: the second call of analyze_solution, with the task types
RunSecondAnalysis ==
    /\ op = "run_map" /\ status = "types"
    /\ taskTypes.items # <<>>
    /\ \E result \in {analyze_solution(solution.form_definitions, taskTypes.items)} :
           IF result.raised
           THEN /\ status' = "failed"
                /\ run' = run
           ELSE /\ status' = "second"
                /\ run' = [run EXCEPT !.task_type_relationships = result.rels,
                                      !.calls = @ + 1,
                                      !.analyzed = Keys(taskTypes.items)]
    /\ UNCHANGED <<op, entity, idx, relationships, actionVars, analyzeVars, graphVars,
                   solution, server, fetchVars>>

\* if task_types_by_id: nothing to analyze again
RunNoTaskTypes ==
    /\ op = "run_map" /\ status = "types"
    /\ taskTypes.items = <<>>
    /\ status' = "merged"
    /\ UNCHANGED <<op, entity, idx, relationships, actionVars, runVars, fetchVars, analyzeVars,
                   graphVars>>

\* lines 141-161: the task types the task types name are fetched
RunMoreTaskTypes ==
    /\ op = "run_map" /\ status = "second"
    /\ LET new_task_type_refs ==
               {ref \in TaskTypeRefs(run.task_type_relationships) :
                   ref[1] \notin Keys(taskTypes.items)}
           fetched(task_type_refs, more_task_types) ==
               IF new_task_type_refs = {} THEN run.fetches
               ELSE Append(run.fetches, FetchCall(task_type_refs, Keys(taskTypes.items),
                                                  more_task_types))
       IN  \E task_type_refs \in Orders(new_task_type_refs) :
            \E more_task_types \in
                   {IF new_task_type_refs = {} THEN Emit(<<>>)
                    ELSE fetch_external_task_types(task_type_refs,
                                                   Keys(taskTypes.items), RoomId)} :
                IF more_task_types.raised
                THEN /\ status' = "failed"
                     /\ run' = [run EXCEPT
                                  !.fetches = fetched(task_type_refs, more_task_types)]
                     /\ UNCHANGED taskTypes
                ELSE /\ status' = "more"
                     /\ run' = [run EXCEPT
                                  !.more_task_types = more_task_types.rels,
                                  !.all_task_types = Extended(@, more_task_types.rels),
                                  !.fetches = fetched(task_type_refs, more_task_types)]
                     /\ taskTypes' = Mapping(ByCategoryId(more_task_types.rels,
                                                          taskTypes.items))
    /\ UNCHANGED <<op, entity, idx, relationships, actionVars, forms, actionMap, allRels,
                   seen, unique, first, graphVars, solution, server, fetchVars>>

\* lines 164-182: the relationships of the second call are merged
RunMerge ==
    /\ op = "run_map" /\ status = "more"
    /\ relationships' =
           Merged(relationships, run.task_type_relationships,
                  {MergeKey(relationships[i]) : i \in DOMAIN relationships})
    /\ status' = "merged"
    /\ UNCHANGED <<op, entity, idx, actionVars, runVars, fetchVars, analyzeVars, graphVars>>

\* lines 185-199: the external forms are fetched and build_graph is called
RunBuildGraph ==
    /\ op = "run_map" /\ status = "merged"
    /\ LET existing_form_ids == {FormNodeId(solution.forms[i]) : i \in DOMAIN solution.forms}
           referenced_ids == get_referenced_ids(relationships)
       IN  \E missing_ids \in Orders(referenced_ids \ existing_form_ids) :
             gForms' = solution.forms \o fetch_external_forms(missing_ids)
    /\ gWorkflows' = solution.workflows
    /\ gRels' = relationships
    /\ gTaskTypes' = run.all_task_types
    /\ gContainer' = NoneV
    /\ op' = "build_graph"
    /\ status' = "running"
    /\ idx' = 0
    /\ UNCHANGED <<entity, relationships, actionVars, runVars, fetchVars, analyzeVars, nodes, edges,
                   order, edgeOrder, stats, neighbors>>

NextRunMap ==
    \/ RunTaskTypeDefinitions \/ RunFirstAnalysis \/ RunExternalTaskTypes
    \/ RunSecondAnalysis \/ RunNoTaskTypes \/ RunMoreTaskTypes \/ RunMerge
    \/ RunBuildGraph
    \/ GraphAddForm \/ GraphAddWorkflow \/ GraphAddTaskType \/ GraphAddTaskTypeRaises
    \/ GraphAddEdge \/ GraphReturn \/ GetGraphStats

\* Inputs of run_map: what fetch_solution returned, and what the client
\* answers afterwards
TaskField78 == Fld(S(TASK), S("Review"), Absent, NoSourceForm,
                   Props("dict", Absent, Absent, S("78"), S("99"), Absent))
TaskField79 == Fld(S(TASK), S("Audit"), Absent, NoSourceForm,
                   Props("dict", Absent, Absent, S("79"), S("99"), Absent))
LookParent == Fld(S(LOOKUP), S("Parent"), S("2"), NoSourceForm, NoProps)
RefChild == Fld(S(REFERENCE), S("Child"), S("3"), NoSourceForm, NoProps)

Intake == GForm(S("1"), Absent, S("Intake"), Absent, Absent)
ParentForm == GForm(Absent, I("2"), S("Parent Form"), Absent, Absent)
\* a form as the client answers with it
Orders3 == [answer |-> TRUE, id |-> S("3"), formId |-> Absent, name |-> S("Orders"),
            external |-> Absent, containerId |-> S("200")]
Approval == GWorkflow(S("9"), Absent, S("Approval"), Absent)

IntakeDef == EntityDef([id |-> S("1"), name |-> S("Intake")], "dict",
                       <<RefParent2, TaskField>>)
ParentFormDef == EntityDef([id |-> S("2"), name |-> S("Parent Form")], "dict",
                           <<FlowField, RefChild>>)
\* the basic record of a form whose definition could not be fetched
ParentFormBasic == EntityDef([id |-> Absent, name |-> S("Parent Form")], "absent", <<>>)
BrokenDef == EntityDef([id |-> S("1"), name |-> S("Intake")], "dict", <<BadFlow>>)

Solution(fs, defs, ws, tts) ==
    [forms |-> fs, form_definitions |-> defs, workflows |-> ws, task_types |-> tts]

Solutions ==
    { Solution(<<Intake, ParentForm>>, <<IntakeDef, ParentFormDef>>, <<Approval>>, <<>>),
      Solution(<<Intake, ParentForm>>, <<IntakeDef, ParentFormBasic>>, <<Approval>>,
               <<GTaskType(S("77"), S("500"), S("Todo"), Absent, Container("absent", Absent))>>),
      Solution(<<Intake>>, <<IntakeDef>>, <<>>,
               <<GTaskType(I("42"), S("7"), S("Lost"), Absent, Container("dict", S("100")))>>),
      Solution(<<ParentForm>>, <<ParentFormDef>>, <<Approval>>, <<>>),
      Solution(<<Intake>>, <<BrokenDef>>, <<>>, <<>>),
      Solution(<<Intake>>, <<IntakeDef>>, <<>>,
               <<GTaskType(S("77"), S("500"), S("Todo"), Absent, Container("none", Absent))>>) }

Todo77 == TaskTypeDef(S("77"), S("500"), S("Todo"), Container("dict", S("99")),
                      <<RefChild, TaskField78>>)
\* the same task type in the container of the solution, already marked
Todo77Here == [TaskTypeDef(S("77"), S("500"), S("Todo"), Container("dict", I("100")),
                           <<RefParent2, LookParent>>)
               EXCEPT !.external = B("False"), !.formType = S("CUSTOM")]
\* a definition whose container is null
Todo77Bad == TaskTypeDef(S("77"), S("500"), S("Todo"), Container("none", Absent), <<>>)
\* a definition whose container id is the empty string
Review78 == TaskTypeDef(S("78"), S("78"), S("Review"), Container("dict", S("")),
                        <<TaskField79>>)
Audit79 == TaskTypeDef(S("79"), S("79"), S("Audit"), Container("absent", Absent), <<>>)
Lost42 == TaskTypeDef(I("42"), S("7"), S("Lost"), Container("none", Absent), <<RefChild>>)

Servers ==
    { [task_types |-> ("77" :> Todo77) @@ ("78" :> Review78) @@ ("79" :> Audit79)
                      @@ ("42" :> Lost42),
       forms |-> ("3" :> Orders3)],
      [task_types |-> ("77" :> Todo77Here) @@ ("78" :> NoAnswer) @@ ("42" :> Lost42),
       forms |-> ("3" :> NoAnswer)],
      [task_types |-> ("77" :> Todo77Bad), forms |-> ("3" :> Orders3)],
      [task_types |-> ("77" :> NoAnswer), forms |-> ("3" :> Orders3)] }

RunActionMaps ==
    { Mapping(<<>>),
      Mapping(<<Item("1", <<CreateEntry>>)>>),
      Mapping(<<Item("1", <<CreateEntry>>), Item("2", <<InvokeAndLaunch>>),
                Item("9", <<CreateEntry, InvokeAndLaunch>>)>>),
      Mapping(<<Item("2", <<CreateNothing>>), Item("9", <<InvokeAndLaunch>>)>>) }

\* form_ids and workflow_ids of fetch_solution: the objects whose actions
\* are fetched
ObjectIds(sol) ==
    {FormNodeId(sol.forms[i]) : i \in DOMAIN sol.forms}
    \cup {Str(sol.workflows[i].id) :
            i \in {j \in DOMAIN sol.workflows : Truthy(Get(sol.workflows[j].id, NoneV))}}

InitRunMap ==
    /\ op = "run_map"
    /\ status = "fetched"
    /\ solution \in Solutions
    /\ server \in Servers
    /\ actionMap \in {m \in RunActionMaps : Keys(m.items) \subseteq ObjectIds(solution)}
    /\ run = NoLocals
    /\ relationships = Idle /\ taskTypes = Idle /\ forms = Idle
    /\ entity = Idle /\ idx = 0 /\ actions = Idle
    /\ allRels = Idle /\ seen = {} /\ unique = Idle /\ first = Idle
    /\ gForms = Idle /\ gWorkflows = Idle /\ gTaskTypes = Idle /\ gRels = Idle
    /\ gContainer = Idle
    /\ nodes = <<>> /\ edges = <<>> /\ order = <<>> /\ edgeOrder = <<>>
    /\ stats = Idle /\ neighbors = Idle
    /\ call = Idle /\ tasks = Idle /\ semaphore = Idle /\ finished = Idle /\ results = Idle

SpecRunMap == InitRunMap /\ [][NextRunMap]_vars

(***************************************************************************)
(* fetcher.py: one call of a function that fetches concurrently.  Each     *)
(* task is a coroutine given to asyncio.gather: it waits for the semaphore *)
(* of the call, sends its request to the client, and is done when the      *)
(* answer (or the failure) arrives, which releases the semaphore.          *)
(***************************************************************************)
MaxTasks == 3
MaxConcurrent == 2

FetchFunctions ==
    {"fetch_all_form_definitions", "fetch_all_task_type_definitions",
     "fetch_external_forms", "fetch_external_task_types", "fetch_all_object_actions"}

\* the inputs of a call: basic form records, or ids
FormOf(i) ==
    IF i % 2 = 1 THEN GForm(S(ToString(i)), Absent, S("Form"), Absent, Absent)
    ELSE GForm(Absent, I(ToString(i)), NoneV, Absent, Absent)
ItemOf(fn, i) == IF fn = "fetch_all_form_definitions" THEN FormOf(i) ELSE ToString(i)

\* what the client answers with
FormDefinition(form_id) ==
    EntityDef([id |-> S(form_id), name |-> S("Form " \o form_id)], "dict", <<RefParent2>>)
FormAnswer(form_id) ==
    [answer |-> TRUE, id |-> S(form_id), formId |-> Absent, name |-> S("Form " \o form_id),
     external |-> Absent, containerId |-> S("200")]
TaskTypeAnswer(task_type_id) ==
    TaskTypeDef(S(task_type_id), S(task_type_id), S("Task"), Container("dict", S("99")), <<>>)
RestCall == Act(S("a8"), S("Call"), S("CALL_REST_API"), S("ON_SAVE"), B("True"),
                Params(I("5"), S("2"), Absent, Absent, Absent, Absent, Absent, Absent, Absent))
PlainAction == Act(S("a9"), S("Notify"), S("NOTIFY"), S("ON_SAVE"), B("True"), NoParams)
ObjectActions(object_id) ==
    IF object_id \in {"1", "3", "5"} THEN <<CreateEntry, RestCall>>
    ELSE <<PlainAction, InvokeAndLaunch>>
\* the answer of the builder endpoint for an action
BuilderOf(action) == [action EXCEPT !.name = S("Builder of " \o Str(action.id))]

Task(phase, item) == [phase |-> phase, item |-> item, pc |-> "waiting", outcome |-> Null]

\* how a request can end: an answer, a failure, and for a task type an
\* answer whose container is null
Outcomes(fn) ==
    IF fn = "fetch_external_task_types" THEN {"ok", "fail", "bad"} ELSE {"ok", "fail"}

\* what the coroutine of a task returns
TaskValue(fn, t) ==
    IF fn = "fetch_all_form_definitions"
        THEN IF t.outcome = "ok" THEN FormDefinition(FormNodeId(t.item)) ELSE t.item
    ELSE IF fn = "fetch_all_task_type_definitions"
        THEN <<t.item, IF t.outcome = "ok" THEN TaskTypeAnswer(t.item) ELSE NoAnswer>>
    ELSE IF fn = "fetch_external_forms"
        THEN IF t.outcome = "ok" THEN [FormAnswer(t.item) EXCEPT !.external = B("True")]
             ELSE NoAnswer
    ELSE IF fn = "fetch_external_task_types"
        THEN IF t.outcome = "ok"
             THEN WithFormType(MarkedExternal(TaskTypeAnswer(t.item), RoomId))
             ELSE NoAnswer
    ELSE IF t.phase = 1
        THEN <<t.item, IF t.outcome = "ok" THEN ObjectActions(t.item) ELSE <<>> >>
    ELSE <<t.item[1], Str(Get(t.item[2].id, NoneV)),
           IF t.outcome = "ok" THEN BuilderOf(t.item[2]) ELSE NoAnswer>>

\* the results in the order the requests were answered
Gathered_AsCompleted(fn, phase) ==
    LET completed == SelectSeq(finished, LAMBDA i : tasks[i].phase = phase)
    IN  [k \in DOMAIN completed |-> TaskValue(fn, tasks[completed[k]])]

\* await asyncio.gather(*tasks): the results in the order of the tasks
Gathered(fn, phase) ==
    LET gathered == SelectSeq(tasks, LAMBDA t : t.phase = phase)
    IN  [k \in DOMAIN gathered |-> TaskValue(fn, gathered[k])]

\* the semaphore never makes a task wait
CanAcquire_Always(value) == TRUE

\* Semaphore.acquire returns at once while the value is positive
CanAcquire(value) == value > 0

\* target_type in mappable_types, for an action that is no REST call
Enrichable(action) ==
    /\ Str(Get(action.consequenceType, NoneV)) # "CALL_REST_API"
    /\ action.params.k = "dict"
    /\ IsInt(action.params.targetObjectType, "3")
       \/ IsInt(action.params.targetObjectType, "5")
       \/ IsInt(action.params.targetObjectType, "9")

\* actions_to_enrich: the pairs (object_id, action), object by object
RECURSIVE ActionsToEnrich(_)
ActionsToEnrich(actions_by_object) ==
    IF actions_by_object = <<>> THEN <<>>
    ELSE LET object_id == Head(actions_by_object)[1]
             enrichable == SelectSeq(Head(actions_by_object)[2], Enrichable)
         IN  [k \in DOMAIN enrichable |-> <<object_id, enrichable[k]>>]
             \o ActionsToEnrich(Tail(actions_by_object))

\* the first action of the list with this id is replaced by the builder
RECURSIVE Replaced(_, _, _)
Replaced(acts, action_id, builder) ==
    IF acts = <<>> THEN <<>>
    ELSE IF Str(Get(Head(acts).id, NoneV)) = action_id THEN <<builder>> \o Tail(acts)
    ELSE <<Head(acts)>> \o Replaced(Tail(acts), action_id, builder)

\* actions_by_object after the builder results are written into it
RECURSIVE Enriched(_, _)
Enriched(actions_by_object, builder_results) ==
    IF builder_results = <<>> THEN actions_by_object
    ELSE LET r == Head(builder_results)
         IN  Enriched(IF r[3] # NoAnswer
                      THEN [k \in DOMAIN actions_by_object |->
                              IF actions_by_object[k][1] = r[1]
                              THEN <<r[1], Replaced(actions_by_object[k][2], r[2], r[3])>>
                              ELSE actions_by_object[k]]
                      ELSE actions_by_object,
                      Tail(builder_results))

\* a mapping built from pairs (key, value)
RECURSIVE DictOf(_, _)
DictOf(pairs, found) ==
    IF pairs = <<>> THEN found
    ELSE DictOf(Tail(pairs), Stored(found, Head(pairs)[1], Head(pairs)[2]))

\* what the call returns once every task is done
FetchResult(fn) ==
    IF fn = "fetch_all_form_definitions" THEN Gathered(fn, 1)
    ELSE IF fn = "fetch_all_task_type_definitions"
        THEN DictOf(SelectSeq(Gathered(fn, 1), LAMBDA r : r[2].answer), <<>>)
    ELSE IF fn \in {"fetch_external_forms", "fetch_external_task_types"}
        THEN SelectSeq(Gathered(fn, 1), LAMBDA r : r.answer)
    ELSE DictOf(Enriched(Gathered(fn, 1), Gathered(fn, 2)), <<>>)

Fetching == op = "fetch" /\ status \in {"gathering", "raised"}
AllDone == \A i \in DOMAIN tasks : tasks[i].pc = "done"

\* async with semaphore: the task enters and sends its request
FetchAcquire ==
    /\ Fetching
    /\ \E i \in DOMAIN tasks :
        /\ tasks[i].pc = "waiting"
        /\ CanAcquire(semaphore)
        /\ tasks' = [tasks EXCEPT ![i].pc = "request"]
    /\ semaphore' = semaphore - 1
    /\ UNCHANGED <<op, status, extractVars, actionVars, runVars, analyzeVars, graphVars,
                   call, finished, results>>

\* the request of a task ends; the task leaves the semaphore and is done
FetchAnswered ==
    /\ Fetching
    /\ \E i \in DOMAIN tasks, outcome \in Outcomes(call.fn) :
        /\ tasks[i].pc = "request"
        /\ tasks' = [tasks EXCEPT ![i].pc = "done", ![i].outcome = outcome]
        /\ finished' = Append(finished, i)
    /\ semaphore' = semaphore + 1
    /\ UNCHANGED <<op, status, extractVars, actionVars, runVars, analyzeVars, graphVars,
                   call, results>>

\* fetch_one raised on a container that is null: gather raises, and the
\* other tasks go on
FetchRaises ==
    /\ op = "fetch" /\ status = "gathering"
    /\ \E i \in DOMAIN tasks : tasks[i].pc = "done" /\ tasks[i].outcome = "bad"
    /\ status' = "raised"
    /\ UNCHANGED <<op, extractVars, actionVars, runVars, analyzeVars, graphVars, fetchVars>>

\* phase 2 of fetch_all_object_actions: the builder tasks are created
FetchBuilders ==
    /\ op = "fetch" /\ status = "gathering"
    /\ call.fn = "fetch_all_object_actions" /\ call.phase = 1
    /\ AllDone
    /\ ActionsToEnrich(Gathered(call.fn, 1)) # <<>>
    /\ \E actions_to_enrich \in {ActionsToEnrich(Gathered(call.fn, 1))} :
          tasks' = tasks \o [k \in DOMAIN actions_to_enrich |-> Task(2, actions_to_enrich[k])]
    /\ call' = [call EXCEPT !.phase = 2]
    /\ UNCHANGED <<op, status, extractVars, actionVars, runVars, analyzeVars, graphVars,
                   semaphore, finished, results>>

FetchReturn ==
    /\ op = "fetch" /\ status = "gathering"
    /\ AllDone
    /\ \A i \in DOMAIN tasks : tasks[i].outcome # "bad"
    /\ IF call.fn = "fetch_all_object_actions" /\ call.phase = 1
       THEN ActionsToEnrich(Gathered(call.fn, 1)) = <<>>
       ELSE TRUE
    /\ results' = FetchResult(call.fn)
    /\ status' = "returned"
    /\ UNCHANGED <<op, extractVars, actionVars, runVars, analyzeVars, graphVars,
                   call, tasks, semaphore, finished>>

NextFetch == FetchAcquire \/ FetchAnswered \/ FetchRaises \/ FetchBuilders \/ FetchReturn

InitFetch ==
    /\ op = "fetch"
    /\ status = "gathering"
    /\ call \in [fn : FetchFunctions, max_concurrent : 1..MaxConcurrent, phase : {1},
                 count : 0..MaxTasks]
    /\ tasks = [i \in 1..call.count |-> Task(1, ItemOf(call.fn, i))]
    /\ semaphore = call.max_concurrent
    /\ finished = <<>>
    /\ results = Idle
    /\ entity = Idle /\ idx = 0 /\ relationships = Idle /\ actions = Idle
    /\ forms = Idle /\ actionMap = Idle /\ taskTypes = Idle
    /\ allRels = Idle /\ seen = {} /\ unique = Idle /\ first = Idle
    /\ gForms = Idle /\ gWorkflows = Idle /\ gTaskTypes = Idle /\ gRels = Idle
    /\ gContainer = Idle
    /\ nodes = <<>> /\ edges = <<>> /\ order = <<>> /\ edgeOrder = <<>>
    /\ stats = Idle /\ neighbors = Idle
    /\ solution = Idle /\ server = Idle /\ run = Idle

SpecFetch == InitFetch /\ [][NextFetch]_vars

(***************************************************************************)
(* Properties of analyze_solution.                                         *)
(***************************************************************************)
C1_SameKey(a, b) ==
    /\ a.source_id = b.source_id
    /\ a.target_id = b.target_id
    /\ a.target_type = b.target_type
    /\ a.relationship_type = b.relationship_type
    /\ a.field_name = b.field_name
    /\ a.action_id = b.action_id

\* the positions of the extracted relationships that are the first of their key
C1_Firsts ==
    {i \in 1..Len(allRels) : \A j \in 1..(i - 1) : ~C1_SameKey(allRels[j], allRels[i])}

\* C1: the list analyze_solution returns never holds two relationships that
\* agree on (source_id, target_id, target_type, relationship_type,
\* field_name, action_id); of the extracted relationships that share a key,
\* exactly the first in extraction order is kept, as it was extracted.
C1_DedupKeepsFirst ==
    (op = "analyze_solution" /\ status = "returned") =>
        /\ \A i, j \in 1..Len(unique) : C1_SameKey(unique[i], unique[j]) => i = j
        /\ Len(unique) = Cardinality(C1_Firsts)
        /\ \A k \in 1..Len(unique) :
              \E i \in C1_Firsts :
                  /\ Cardinality({j \in C1_Firsts : j <= i}) = k
                  /\ unique[k] = allRels[i]

\* two extracted relationships shared a key and differed in target_name and
\* is_subform, and the list returned is shorter than the list extracted
C1_Witness ==
    /\ op = "analyze_solution" /\ status = "returned"
    /\ Len(unique) < Len(allRels)
    /\ \E i, j \in 1..Len(allRels) :
          /\ i < j
          /\ C1_SameKey(allRels[i], allRels[j])
          /\ allRels[i].target_name # allRels[j].target_name
          /\ allRels[i].is_subform # allRels[j].is_subform
          /\ \E k \in 1..Len(unique) : unique[k] = allRels[i]

\* C2: every relationship emitted by extract_relationships,
\* extract_action_relationships or analyze_solution has a non-empty
\* target_id: a field or action whose target id is absent or empty never
\* yields a relationship.
C2_TargetIdNonEmpty ==
    \A rs \in {relationships, allRels, unique} :
        \A k \in 1..Len(rs) : rs[k].target_id \notin {"", Null}

\* analyze_solution returned relationships for a form that has a field with an
\* empty sourceFormId and an action with an empty targetForm
C2_Witness ==
    /\ op = "analyze_solution" /\ status = "returned"
    /\ unique # <<>>
    /\ \E i \in 1..Len(forms) :
          /\ \E n \in 1..Len(forms[i].fields) :
                forms[i].fields[n].f.sourceFormId = S("")
          /\ \E n \in 1..Len(Lookup(actionMap.items, FormId(forms[i]))) :
                /\ Lookup(actionMap.items, FormId(forms[i]))[n].params.targetForm = S("")
                /\ Lookup(actionMap.items, FormId(forms[i]))[n].params.targetObjectType = I("5")

(***************************************************************************)
(* Properties of extract_relationships.                                    *)
(***************************************************************************)
TypeOf(f) == IF f.fieldType.k = "absent" THEN "" ELSE f.fieldType.s
Present(v) == v.k # "absent"

\* the fields the statement of C3 gives one relationship, and their target type
C3_Target(f) ==
    IF ~f.mapping THEN Null
    ELSE IF TypeOf(f) \in {REFERENCE, FORM_ENTRY, LOOKUP} /\ Present(f.sourceFormId)
        THEN "form"
    ELSE IF /\ TypeOf(f) \in {WORKFLOW, WORKFLOW_LOOKUP}
            /\ f.properties.k = "dict" /\ Present(f.properties.processId)
        THEN "workflow"
    ELSE IF /\ TypeOf(f) = TASK
            /\ f.properties.k = "dict" /\ Present(f.properties.taskTypeFilter)
        THEN "task_type"
    ELSE Null

C3_Expected == SelectSeq(entity.fields, LAMBDA it : C3_Target(it.f) # Null)

\* C3: extract_relationships emits exactly one relationship for every field
\* whose type is REFERENCE, FORM_ENTRY or LOOKUP with sourceFormId present
\* (target_type form), WORKFLOW or WORKFLOW_LOOKUP with properties.processId
\* present (workflow), or TASK with properties.taskTypeFilter present
\* (task_type), and none for any other field; relationship_type is the
\* field's type tag and the output follows the field order.
C3_OnePerConfiguredField ==
    (op = "extract_relationships" /\ status # "running") =>
        /\ status = "returned"
        /\ Len(relationships) = Len(C3_Expected)
        /\ \A k \in 1..Len(relationships) :
              /\ relationships[k].relationship_type = TypeOf(C3_Expected[k].f)
              /\ relationships[k].target_type = C3_Target(C3_Expected[k].f)

\* C4: extract_relationships never raises, whatever is missing or malformed
\* in the definition or in a field record.
C4_NeverRaises ==
    op = "extract_relationships" => status # "raised"

(***************************************************************************)
(* Properties of extract_action_relationships.                             *)
(***************************************************************************)
\* the action the next iteration of the loop reads
Current == actions[idx + 1]
InLoop == op = "extract_action_relationships" /\ status = "running" /\ idx < Len(actions)
\* the relationships the iteration appended
Appended == SubSeq(relationships', Len(relationships) + 1, Len(relationships'))

C8_Skipped(a) ==
    /\ a.mapping
    /\ \/ a.consequenceType = S("CALL_REST_API")
       \/ /\ a.params.k = "dict"
          /\ \E n \in {"11", "16", "21", "22"} : a.params.targetObjectType = I(n)

\* C8: an action whose consequenceType is CALL_REST_API, or whose
\* consequenceParams.targetObjectType is 11, 16, 21 or 22, emits nothing at
\* all: the iteration that reads it appends no relationship and ends normally.
C8_SkippedActionsEmitNothing ==
    [][(InLoop /\ C8_Skipped(Current)) =>
          (relationships' = relationships /\ status' = "running" /\ idx' = idx + 1)]_vars

\* a skipped action whose parameters name a launch target and a form target
\* was read after an action that emitted
C8_Witness ==
    /\ op = "extract_action_relationships" /\ status = "returned"
    /\ Len(actions) = 2 /\ Len(relationships) = 1
    /\ C8_Skipped(actions[2])
    /\ actions[2].params.targetContainerType = I("7")
    /\ Truthy(actions[2].params.targetContainerId)
    /\ Truthy(actions[2].params.targetForm)

IsPrimary(r) == r.target_type \in {"form", "workflow", "task_type"}
IsLaunch(r) == r.target_type \in {"template", "plan"}

\* the mapping the statement of C9 gives: code -> <<tag, target type, id key>>
C9_Allowed(a, r) ==
    LET ps == a.params
    IN  /\ ps.k = "dict"
        /\ \/ /\ ps.targetObjectType = I("5") /\ Present(ps.targetForm)
              /\ r.relationship_type = ACTION_CREATES_ENTRY /\ r.target_type = "form"
              /\ r.target_id = ps.targetForm.s
           \/ /\ ps.targetObjectType = I("9") /\ Present(ps.targetProcess)
              /\ r.relationship_type = ACTION_INVOKES_WORKFLOW
              /\ r.target_type = "workflow"
              /\ r.target_id = ps.targetProcess.s
           \/ /\ ps.targetObjectType = I("3") /\ Present(ps.targetTaskType)
              /\ r.relationship_type = ACTION_CREATES_TASK
              /\ r.target_type = "task_type"
              /\ r.target_id = ps.targetTaskType.s

\* C9: for an action that is not skipped, the primary mapping emits a
\* relationship only for targetObjectType 5 (ACTION_CREATES_ENTRY, form,
\* targetForm), 9 (ACTION_INVOKES_WORKFLOW, workflow, targetProcess) or 3
\* (ACTION_CREATES_TASK, task_type, targetTaskType), and only when the named
\* target id is present; any other code, also an absent one, emits none.
C9_PrimaryMappingOnly ==
    [][(InLoop /\ Current.mapping /\ ~C8_Skipped(Current)) =>
          /\ \A k \in 1..Len(Appended) :
                IsPrimary(Appended[k]) => C9_Allowed(Current, Appended[k])
          /\ Cardinality({k \in 1..Len(Appended) : IsPrimary(Appended[k])}) <= 1]_vars

\* an action with another code and all three ids present has produced no
\* relationship, and the action after it, with code 9, has produced the
\* relationship to its targetProcess
C9_Witness ==
    /\ op = "extract_action_relationships" /\ status = "returned"
    /\ Len(actions) = 2
    /\ actions[1].params.targetObjectType = I("4")
    /\ Present(actions[1].params.targetForm)
    /\ Present(actions[1].params.targetProcess)
    /\ Present(actions[1].params.targetTaskType)
    /\ actions[2].params.targetObjectType = I("9")
    /\ Len(relationships) = 1
    /\ relationships[1].relationship_type = ACTION_INVOKES_WORKFLOW
    /\ relationships[1].target_id = actions[2].params.targetProcess.s

\* the launch relationship the statement of C10 expects of an action
C10_Launch(a) ==
    IF a.mapping /\ ~C8_Skipped(a) /\ a.params.k = "dict" /\ Present(a.params.targetContainerId)
    THEN IF a.params.targetContainerType = I("5") THEN <<ACTION_LAUNCHES_TEMPLATE>>
         ELSE IF a.params.targetContainerType = I("7") THEN <<ACTION_LAUNCHES_PLAN>>
         ELSE <<>>
    ELSE <<>>

RECURSIVE C10_Launches(_)
C10_Launches(as) ==
    IF as = <<>> THEN <<>> ELSE C10_Launch(Head(as)) \o C10_Launches(Tail(as))

LaunchTags(rs) ==
    LET ls == SelectSeq(rs, IsLaunch)
    IN  [k \in 1..Len(ls) |-> ls[k].relationship_type]

\* C10: for an action that is not skipped, a launch relationship is emitted
\* exactly when targetContainerType is 5 (ACTION_LAUNCHES_TEMPLATE) or 7
\* (ACTION_LAUNCHES_PLAN) and targetContainerId is present, whether or not
\* the primary mapping emitted; an action contributes at most two
\* relationships, the create/invoke one first.
C10_LaunchExactlyWhenConfigured ==
    (op = "extract_action_relationships" /\ status # "running") =>
        /\ status = "returned"
        /\ LaunchTags(relationships) = C10_Launches(actions)

(***************************************************************************)
(* Properties of build_graph.                                              *)
(***************************************************************************)
Built == op = "build_graph" /\ status = "returned"

\* the relationships applied to the pair e, as positions in application order
Applied(e) == {i \in 1..Len(gRels) : <<gRels[i].source_id, gRels[i].target_id>> = e}
LastApplied(e) == gRels[CHOOSE i \in Applied(e) : \A j \in Applied(e) : j <= i]

\* the attributes one relationship produces on an edge of its own
Alone(rel) == AddEdge(<<>>, rel.source_id, rel.target_id, EdgeData(rel))[
                  <<rel.source_id, rel.target_id>>]

\* C5: after build_graph, when several relationships share the same
\* (source_id, target_id) pair, the attributes on that edge are exactly those
\* the last-applied relationship would produce on its own; no attribute
\* written by an earlier relationship remains unless the last one sets it too.
C5_EdgeHoldsLastOnly ==
    Built => \A e \in DOMAIN edges : edges[e] = Alone(LastApplied(e))

\* the ids of the supplied entities
IdElse(a, b) == IF Truthy(a) THEN a.s ELSE IF b.k = "absent" THEN "None" ELSE b.s
EntityIds ==
    {IdElse(gForms[i].id, gForms[i].formId) : i \in 1..Len(gForms)}
    \cup {IdElse(gWorkflows[i].id, gWorkflows[i].processId) : i \in 1..Len(gWorkflows)}
    \cup {IdElse(gTaskTypes[i].categoryId, gTaskTypes[i].categoryId) :
             i \in 1..Len(gTaskTypes)}

\* the ids the relationships name
EndpointIds ==
    {gRels[i].source_id : i \in 1..Len(gRels)} \cup {gRels[i].target_id : i \in 1..Len(gRels)}

NodeTypes == {"form", "workflow", "task_type"}

C7_OneEdgePerOrderedPair ==
    Built =>
        Cardinality(DOMAIN edges)
            = Cardinality({<<gRels[i].source_id, gRels[i].target_id>> : i \in 1..Len(gRels)})

\* two relationships of one ordered pair have made one edge
C7_Witness ==
    /\ Built
    /\ Len(gRels) = 2
    /\ gRels[1] # gRels[2]
    /\ gRels[1].source_id = gRels[2].source_id
    /\ gRels[1].target_id = gRels[2].target_id
    /\ Cardinality(DOMAIN edges) = 1

\* two relationships of opposite direction have made two edges
C7_WitnessDirection ==
    /\ Built
    /\ Len(gRels) = 2
    /\ gRels[1].source_id = gRels[2].target_id
    /\ gRels[1].target_id = gRels[2].source_id
    /\ gRels[1].source_id # gRels[1].target_id
    /\ Cardinality(DOMAIN edges) = 2

(***************************************************************************)
(* Properties of analyze_solution: order of the result.                    *)
(***************************************************************************)
Analyzed == op = "analyze_solution" /\ status = "returned"

\* the action list the mapping holds for an owner, <<>> without a mapping
ActionsOf(owner) ==
    IF actionMap.k = "dict" THEN Lookup(actionMap.items, owner) ELSE <<>>

\* field relationships followed by action relationships, form by form
RECURSIVE C11_OfForms(_)
C11_OfForms(fs) ==
    IF fs = <<>> THEN <<>>
    ELSE extract_relationships(Head(fs)).rels
         \o extract_action_relationships(FormId(Head(fs)), FormName(Head(fs)),
                                         ActionsOf(FormId(Head(fs)))).rels
         \o C11_OfForms(Tail(fs))

\* field relationships followed by action relationships, task type by task type
RECURSIVE C11_OfTaskTypes(_)
C11_OfTaskTypes(items) ==
    IF items = <<>> THEN <<>>
    ELSE extract_relationships(Head(items).val).rels
         \o extract_action_relationships(Head(items).key,
                Get(Head(items).val.name, S("Unknown Task Type")),
                ActionsOf(Head(items).key)).rels
         \o C11_OfTaskTypes(Tail(items))

\* rs with every relationship removed whose key an earlier one has
RECURSIVE C11_FirstSeen(_, _)
C11_FirstSeen(rs, kept) ==
    IF rs = <<>> THEN kept
    ELSE IF \E k \in 1..Len(kept) : C1_SameKey(kept[k], Head(rs))
         THEN C11_FirstSeen(Tail(rs), kept)
         ELSE C11_FirstSeen(Tail(rs), Append(kept, Head(rs)))

\* C11: the list analyze_solution returns is the concatenation, with later
\* duplicates removed and first-seen order kept, of: for each form in input
\* order its field relationships followed by its action relationships, then
\* for each task type in mapping order its field relationships followed by
\* its action relationships.
C11_ConcatenationInOrder ==
    Analyzed =>
        unique = C11_FirstSeen(C11_OfForms(forms)
                               \o C11_OfTaskTypes(IF taskTypes.k = "dict"
                                                  THEN taskTypes.items ELSE <<>>), <<>>)

\* a form and a task type have both given field and action relationships,
\* and a duplicate has been removed
C11_Witness ==
    /\ Analyzed
    /\ Len(forms) = 2 /\ taskTypes.k = "dict" /\ Len(taskTypes.items) = 1
    /\ Len(unique) < Len(allRels)
    /\ \E i, j, m, n \in 1..Len(unique) :
          /\ i < j /\ j < m /\ m < n
          /\ unique[i].field_name # Null /\ unique[i].source_id = "1"
          /\ unique[j].action_id # Null /\ unique[j].source_id = "1"
          /\ unique[m].field_name # Null /\ unique[m].target_type = "workflow"
          /\ unique[n].action_id # Null /\ unique[n].source_id = "77"

\* analyze_solution has been called twice and both calls have returned
AnalyzedTwice == Analyzed /\ first # NoCall

InFieldLoop ==
    /\ op = "extract_relationships" /\ status = "running"
    /\ entity.fieldsKind \in {"absent", "dict"} /\ idx < Len(entity.fields)
CurrentField == entity.fields[idx + 1].f

\* every relationship a list of the state holds
Emitted ==
    {relationships[i] : i \in DOMAIN relationships}
    \cup (IF op = "analyze_solution"
          THEN {allRels[i] : i \in DOMAIN allRels} \cup {unique[i] : i \in DOMAIN unique}
          ELSE {})

\* properties.referenceNewEntry of a field record is given and true
C13_NewEntry(f) ==
    /\ f.properties.k = "dict"
    /\ f.properties.referenceNewEntry \notin
          {Absent, NoneV, B("False"), S(""), I("0")}

\* C13: every relationship emitted from a REFERENCE field has is_subform
\* True if properties.referenceNewEntry is truthy and False, never null, if
\* it is false or absent; a relationship of any other type, field-derived or
\* action-derived, has is_subform null.
C13_SubformFlag ==
    [][/\ (InFieldLoop /\ CurrentField.mapping
             /\ CurrentField.fieldType = S(REFERENCE)) =>
             \A i \in DOMAIN Appended :
                 Appended[i].is_subform =
                     IF C13_NewEntry(CurrentField) THEN "True" ELSE "False"
       /\ \A r \in Emitted' :
             IF r.relationship_type = REFERENCE
             THEN r.is_subform \in {"True", "False"}
             ELSE r.is_subform = Null]_vars

\* REFERENCE fields with and without referenceNewEntry, and a WORKFLOW
\* field, have emitted
C13_Witness ==
    /\ op = "extract_relationships" /\ status = "returned"
    /\ \E r \in Emitted : r.relationship_type = REFERENCE /\ r.is_subform = "False"
                          /\ r.target_id = "3"
    /\ \E r \in Emitted : r.relationship_type # REFERENCE /\ r.is_subform = Null

\* a value that is given and not null
C14_Given(v) == v.k \notin {"absent", "none"}
\* a value that is given and neither null, empty, zero nor false
C14_Filled(v) == C14_Given(v) /\ v \notin {S(""), I("0"), B("False")}

\* the container of the TASK field read next
C14_Container == CurrentField.properties.taskTypeContainer

\* the relationships of a TASK field carry the filter as target and the
\* container, converted to text, where it counts as given
C14_TaskStep(given) ==
    (InFieldLoop /\ CurrentField.mapping /\ CurrentField.fieldType = S(TASK)) =>
        \A i \in DOMAIN Appended :
            /\ Appended[i].target_id = CurrentField.properties.taskTypeFilter.s
            /\ Appended[i].target_name = Null
            /\ Appended[i].target_container_id =
                  IF given THEN C14_Container.s ELSE Null

C14_OnlyTaskTypes ==
    \A r \in Emitted' : r.target_container_id # Null => r.target_type = "task_type"

\* C14 as stated: target_container_id is non-null only for task_type
\* targets, and a TASK field yields the text of taskTypeFilter as target_id,
\* a null target_name, and the text of taskTypeContainer as
\* target_container_id when that is present, else null.
C14_ContainerWhenPresent ==
    [][C14_OnlyTaskTypes /\ C14_TaskStep(C14_Given(C14_Container))]_vars

\* C14: target_container_id is non-null only for task_type targets, and a
\* TASK field yields the text of taskTypeFilter as target_id, a null
\* target_name, and the text of taskTypeContainer as target_container_id
\* when that is given and neither null, empty nor zero, else null.
C14_ContainerWhenFilled ==
    [][C14_OnlyTaskTypes /\ C14_TaskStep(C14_Filled(C14_Container))]_vars

\* a TASK field with an empty taskTypeContainer has emitted after a TASK
\* field with a container
C14_Witness ==
    /\ op = "extract_relationships" /\ status = "returned"
    /\ Len(relationships) = 2
    /\ relationships[1].target_container_id = "99"
    /\ relationships[2].target_container_id = Null
    /\ entity.fields[2].f.properties.taskTypeContainer = S("")

\* field-derived: a field tag, a field name and no action metadata
C15_FieldDerived(r) ==
    /\ r.relationship_type \in FieldTags
    /\ r.field_name # Null
    /\ r.action_id = Null /\ r.action_name = Null
    /\ r.trigger_type = Null /\ r.automatic = Null

\* action-derived: an ACTION_* tag, no field name and all action metadata
C15_ActionDerived(r) ==
    /\ r.relationship_type \in ActionTags
    /\ r.field_name = Null
    /\ r.action_id # Null /\ r.action_name # Null
    /\ r.trigger_type # Null /\ r.automatic # Null

\* C15: every relationship analyze_solution returns is either field-derived
\* (field tag, field_name non-null, the four action metadata fields null) or
\* action-derived (ACTION_* tag, field_name null, the four action metadata
\* fields non-null).
C15_FieldOrActionDerived ==
    Analyzed => \A i \in DOMAIN unique :
                    C15_FieldDerived(unique[i]) \/ C15_ActionDerived(unique[i])

(***************************************************************************)
(* Properties of the edges of build_graph.                                 *)
(***************************************************************************)
\* the four action metadata attributes of an edge
C16_Metadata(e) ==
    {edges[e].action_id, edges[e].action_name, edges[e].trigger_type, edges[e].automatic}

\* C16: after build_graph every edge has edge_category action if the
\* relationship last applied to its pair carries an action id and field
\* otherwise, and the edge carries the four action metadata attributes
\* exactly when its edge_category is action.
C16_CategoryAndMetadata ==
    Built => \A e \in DOMAIN edges :
        /\ edges[e].edge_category =
              IF LastApplied(e).action_id \notin {Null, ""} THEN "action" ELSE "field"
        /\ IF edges[e].edge_category = "action"
           THEN Unset \notin C16_Metadata(e)
           ELSE C16_Metadata(e) = {Unset}

(***************************************************************************)
(* Properties of identities: ids and names of entities and fields.         *)
(***************************************************************************)
\* a text that is null, empty or the text of a null
C17_AbsentText == {Null, Unset, "", "None"}

\* the entity nodes of the graph: the nodes that carry a node_type
C17_EntityNodes(ns) ==
    IF op = "build_graph" THEN {n \in DOMAIN ns : ns[n].node_type # Unset} ELSE {}

\* C17: a missing entity id or name never reaches downstream code as an
\* absent value: an entity without a name gets source_name "Unknown" and node
\* name "Unknown", a field without a name gets field_name "Field {field id}",
\* and no relationship's source_id or source_name and no graph node's key or
\* name is null, empty or the text of a null.
C17_NoAbsentIdentity ==
    [][/\ (InFieldLoop /\ CurrentField.mapping) =>
             \A i \in DOMAIN Appended :
                 /\ entity.name = Absent => Appended[i].source_name = "Unknown"
                 /\ CurrentField.name = Absent =>
                        Appended[i].field_name = "Field " \o entity.fields[idx + 1].id
       /\ \A r \in Emitted' :
             r.source_id \notin C17_AbsentText /\ r.source_name \notin C17_AbsentText
       /\ \A n \in C17_EntityNodes(nodes') :
             n \notin C17_AbsentText /\ nodes'[n].name \notin C17_AbsentText]_vars

(***************************************************************************)
(* Properties of skipping: what one field or action does to the others.    *)
(***************************************************************************)
\* an extractor has ended, and what its caller receives from it
Ended ==
    /\ op \in {"extract_relationships", "extract_action_relationships"}
    /\ status \in {"returned", "raised"}
Received == IF status = "returned" THEN relationships ELSE <<>>

\* what the extractor emits for the i-th field (action) of the entity when
\* the entity has no other
C18_Alone(i) ==
    IF op = "extract_relationships"
    THEN extract_relationships([entity EXCEPT !.fields = <<entity.fields[i]>>]).rels
    ELSE extract_action_relationships(Str(entity.id), entity.name, <<actions[i]>>).rels

C18_Count == IF op = "extract_relationships" THEN Len(entity.fields) ELSE Len(actions)

RECURSIVE C18_Concat(_)
C18_Concat(i) == IF i > C18_Count THEN <<>> ELSE C18_Alone(i) \o C18_Concat(i + 1)

\* C18: a field or action that is skipped or malformed affects only itself:
\* what extract_relationships (extract_action_relationships) emits for an
\* entity is the in-order concatenation of what it emits for each of the
\* entity's fields (actions) taken alone.
C18_SkipAffectsOnlyItself ==
    Ended => Received = C18_Concat(1)

(***************************************************************************)
(* Properties of the container of an action-derived task type.             *)
(***************************************************************************)
\* the three container parameters of the action read next, in reading order
C19_Keys ==
    <<Current.params.targetTaskTypeContainer, Current.params.taskTypeContainer,
      Current.params.targetContainer>>

\* the text of the first of the three at a position of the set, null for none
C19_FirstOf(positions) ==
    IF positions = {} THEN Null
    ELSE C19_Keys[CHOOSE i \in positions : \A j \in positions : i <= j].s

\* the task_type relationships of an iteration carry the container
C19_TaskStep(container) ==
    InLoop =>
        \A i \in DOMAIN Appended :
            Appended[i].target_type = "task_type" =>
                Appended[i].target_container_id = container

\* C19 as stated: for an action-derived task_type relationship,
\* target_container_id is the text of the first present of
\* targetTaskTypeContainer, taskTypeContainer, targetContainer, in that
\* order, and null when none is present.
C19_FirstPresentContainer ==
    [][C19_TaskStep(C19_FirstOf({i \in 1..3 : C14_Given(C19_Keys[i])}))]_vars

\* C19: for an action-derived task_type relationship, target_container_id is
\* the text of the first of targetTaskTypeContainer, taskTypeContainer,
\* targetContainer, in that order, that is given and neither null, empty nor
\* zero, and null when none is.
C19_FirstFilledContainer ==
    [][C19_TaskStep(C19_FirstOf({i \in 1..3 : C14_Filled(C19_Keys[i])}))]_vars

\* a task action whose first container parameter is empty has emitted the
\* third, after a task action that emitted the first of three
C19_Witness ==
    /\ op = "extract_action_relationships" /\ status = "returned"
    /\ Len(actions) = 2 /\ Len(relationships) = 2
    /\ actions[1].params.targetTaskTypeContainer = S("91")
    /\ relationships[1].target_container_id = "91"
    /\ actions[2].params.targetTaskTypeContainer = S("")
    /\ relationships[2].target_container_id = "93"

(***************************************************************************)
(* Properties of get_graph_stats.                                          *)
(***************************************************************************)
\* get_graph_stats has returned for a graph built without relationships
C20_NoRelationships == op = "get_graph_stats" /\ gRels = <<>>

\* the number of different entities supplied, an entity listed twice
\* counted once
C20_Supplied ==
    Cardinality({gForms[i] : i \in DOMAIN gForms})
    + Cardinality({gWorkflows[i] : i \in DOMAIN gWorkflows})
    + Cardinality({gTaskTypes[i] : i \in DOMAIN gTaskTypes})

\* C20 as stated: for a graph built from N entities (forms, workflows and
\* task types together) and an empty relationship list, get_graph_stats
\* reports isolated_nodes = N and connected_components = N.
C20_OnePerEntity ==
    C20_NoRelationships =>
        stats.isolated_nodes = C20_Supplied /\ stats.connected_components = C20_Supplied

\* C20: for a graph built from entities with N distinct node ids and an
\* empty relationship list, get_graph_stats reports isolated_nodes = N and
\* connected_components = N.
C20_OnePerEntityId ==
    C20_NoRelationships =>
        /\ stats.isolated_nodes = Cardinality(EntityIds)
        /\ stats.connected_components = Cardinality(EntityIds)

\* statistics of a graph of four or more different entities, two of them
\* under one id
C20_Witness ==
    /\ C20_NoRelationships
    /\ C20_Supplied >= 4
    /\ stats.isolated_nodes >= 3
    /\ stats.isolated_nodes < C20_Supplied

\* get_graph_stats has returned
Counted == op = "get_graph_stats"

\* the sum of the counts of a dictionary of counts
RECURSIVE C21_Sum(_)
C21_Sum(counts) ==
    IF DOMAIN counts = {} THEN 0
    ELSE LET t == CHOOSE x \in DOMAIN counts : TRUE
         IN  counts[t] + C21_Sum([x \in DOMAIN counts \ {t} |-> counts[x]])

\* C21: for every graph build_graph built, get_graph_stats reports
\* action_edges + field_edges = total_edges, and the counts of edge_types sum
\* to total_edges: every edge is counted under exactly one edge category and
\* under exactly one relationship type.
C21_EdgeCountsAddUp ==
    Counted =>
        /\ stats.total_edges = Cardinality(DOMAIN edges)
        /\ stats.action_edges + stats.field_edges = stats.total_edges
        /\ C21_Sum(stats.edge_types) = stats.total_edges
        /\ \A e \in DOMAIN edges :
              /\ edges[e].edge_category \in {"action", "field"}
              /\ edges[e].relationship_type \in DOMAIN stats.edge_types

\* statistics of a graph with an action edge and a field edge of two types
C21_Witness ==
    /\ Counted
    /\ stats.action_edges = 1 /\ stats.field_edges = 1
    /\ Cardinality(DOMAIN stats.edge_types) = 2

\* the edges into and out of a node
C22_Incoming(n) == Cardinality({e \in DOMAIN edges : e[2] = n})
C22_Outgoing(n) == Cardinality({e \in DOMAIN edges : e[1] = n})

\* a list of at most five entries, each with the positive count of its
\* node, largest first, that leaves out no node of a larger count than its
\* smallest
C22_TopFive(list, count) ==
    /\ Len(list) <= 5
    /\ \A i \in DOMAIN list :
          /\ list[i].id \in DOMAIN nodes
          /\ list[i].count > 0
          /\ list[i].count = count[list[i].id]
    /\ \A i, j \in DOMAIN list : i < j => list[i].count >= list[j].count
    /\ \A n \in DOMAIN nodes :
          (\A i \in DOMAIN list : list[i].id # n) =>
              \A i \in DOMAIN list : count[n] <= list[i].count

\* C22: in get_graph_stats, most_referenced (most_referencing) has at most 5
\* entries, each with a count > 0 equal to the number of incoming (outgoing)
\* edges of its node, in non-increasing count order, and every node left out
\* has a count no greater than the smallest listed count.
C22_MostConnected ==
    Counted =>
        /\ C22_TopFive(stats.most_referenced, [n \in DOMAIN nodes |-> C22_Incoming(n)])
        /\ C22_TopFive(stats.most_referencing, [n \in DOMAIN nodes |-> C22_Outgoing(n)])

\* five nodes are listed, one of two incoming edges first, and a sixth node
\* with an incoming edge is left out
C22_Witness ==
    /\ Counted
    /\ Len(stats.most_referenced) = 5
    /\ stats.most_referenced[1].count = 2
    /\ stats.most_referenced[5].count = 1
    /\ Cardinality({n \in DOMAIN nodes : C22_Incoming(n) > 0}) > 5

(***************************************************************************)
(* Properties of get_node_neighbors.                                       *)
(***************************************************************************)
\* an attribute read with .get: null when the dictionary does not have it
C23_Read(v) == IF v = Unset THEN Null ELSE v

\* list holds exactly one entry for every edge of the set, and the entry of
\* an edge names the neighbour at position side of the edge
C23_OnePerEdge(list, es, side) ==
    /\ Len(list) = Cardinality(es)
    /\ \A e \in es :
          \E i \in DOMAIN list :
              /\ list[i].id = e[side]
              /\ list[i].name = C23_Read(nodes[e[side]].name)
              /\ list[i].relationship = C23_Read(edges[e].relationship_type)
              /\ list[i].field = C23_Read(edges[e].field_name)

C23_Result ==
    IF neighbors.asked \notin DOMAIN nodes
    THEN DOMAIN neighbors.result = {"error"}
    ELSE /\ "error" \notin DOMAIN neighbors.result
         /\ C23_OnePerEdge(neighbors.result.referenced_by,
                           {e \in DOMAIN edges : e[2] = neighbors.asked}, 1)
         /\ C23_OnePerEdge(neighbors.result.references,
                           {e \in DOMAIN edges : e[1] = neighbors.asked}, 2)

\* C23: get_node_neighbors never raises: for an id that is not a node it
\* returns only an error entry and the graph stays as it was (the id does not
\* become a node); for a node it returns referenced_by with exactly one
\* entry per predecessor and references with exactly one entry per
\* successor, each with the neighbour's id and name and the edge's
\* relationship type and field name.
C23_NeighborsOfNode ==
    [][(op = "build_graph" /\ status = "returned" /\ op' = "get_node_neighbors") =>
          /\ status' = "returned"
          /\ nodes' = nodes /\ edges' = edges
          /\ C23_Result']_vars

\* a node with two predecessors and a successor was asked for
C23_Witness ==
    /\ op = "get_node_neighbors"
    /\ neighbors.asked \in DOMAIN nodes
    /\ Len(neighbors.result.referenced_by) = 2
    /\ Len(neighbors.result.references) = 1

\* an id that is no node was asked for of a graph with nodes
C23_WitnessNotFound ==
    /\ op = "get_node_neighbors"
    /\ DOMAIN nodes # {}
    /\ neighbors.asked \notin DOMAIN nodes

(***************************************************************************)
(* Properties of the task types analyze_solution is given.                 *)
(***************************************************************************)
\* the relationships derived from one task type of the mapping: from its
\* fields, then from its actions
C24_Derived(item) ==
    extract_relationships(item.val).rels
    \o extract_action_relationships(item.key,
           Get(item.val.name, S("Unknown Task Type")), ActionsOf(item.key)).rels

\* C24: for every task type supplied to analyze_solution under key k, every
\* relationship derived from that task type, from its fields as well as from
\* its actions, is in the result with source_id = k, the id under which
\* build_graph creates the node of the task type.
C24_TaskTypeSourceIsKey ==
    Analyzed =>
        \A i \in DOMAIN TaskTypeItems :
            \A j \in DOMAIN C24_Derived(TaskTypeItems[i]) :
                /\ \E m \in DOMAIN allRels : allRels[m] = C24_Derived(TaskTypeItems[i])[j]
                /\ C24_Derived(TaskTypeItems[i])[j].source_id = TaskTypeItems[i].key

(***************************************************************************)
(* Properties of run_map.                                                  *)
(***************************************************************************)
\* the merge of run_map is done
RunMerged ==
    \/ op = "run_map" /\ status = "merged"
    \/ op \in {"build_graph", "get_graph_stats"} /\ run # Idle

\* C25: after the merge of run_map, every relationship the second call of
\* analyze_solution returned is in the final list, compared on the key of
\* the analyzer (source, target, target type, relationship type, field
\* name, action id): the merge drops none that was not already there.
C25_MergeKeepsSecondPass ==
    RunMerged /\ run.calls = 2 =>
        \A i \in DOMAIN run.task_type_relationships :
            \E j \in DOMAIN relationships :
                DedupKey(relationships[j]) = DedupKey(run.task_type_relationships[i])

\* a custom action with a mappable target: not CALL_REST_API, and a
\* targetObjectType of 3, 5 or 9 whose target id is given
C26_Mappable(action) ==
    /\ action.mapping
    /\ Str(Get(action.consequenceType, S(""))) # "CALL_REST_API"
    /\ action.params.k = "dict"
    /\ \/ IsInt(action.params.targetObjectType, "5") /\ Truthy(action.params.targetForm)
       \/ IsInt(action.params.targetObjectType, "9") /\ Truthy(action.params.targetProcess)
       \/ IsInt(action.params.targetObjectType, "3") /\ Truthy(action.params.targetTaskType)

\* C26: in run_map, every fetched custom action with a mappable target
\* yields a relationship in the final list whose source is the entity that
\* owns the action, a form or a workflow.
C26_EveryActionMapped ==
    RunMerged =>
        \A i \in DOMAIN actionMap.items :
            \A a \in DOMAIN actionMap.items[i].val :
                C26_Mappable(actionMap.items[i].val[a]) =>
                    \E j \in DOMAIN relationships :
                        /\ relationships[j].source_id = actionMap.items[i].key
                        /\ relationships[j].action_id = Str(actionMap.items[i].val[a].id)

\* build_graph was called by run_map
RunBuilt == op \in {"build_graph", "get_graph_stats"} /\ run # Idle

\* the ids of the task types fetched after the second call: the key each
\* has in the graph, and the id of its definition
C27_LateIds ==
    {Str(Get(run.more_task_types[i].categoryId, NoneV)) : i \in DOMAIN run.more_task_types}
    \cup {Str(Get(run.more_task_types[i].id, S(""))) : i \in DOMAIN run.more_task_types}

\* C27: analyze_solution is called at most twice in a run of run_map; the
\* task types fetched after the second call are in the entity list given to
\* build_graph and become nodes, none of them was among the task types
\* given to analyze_solution, and no relationship has one of them as source.
C27_OneExtraLevel ==
    /\ op = "run_map" => run.calls <= 2
    /\ RunBuilt =>
        /\ run.calls <= 2
        /\ \A i \in DOMAIN run.more_task_types :
              /\ \E j \in DOMAIN gTaskTypes : gTaskTypes[j] = run.more_task_types[i]
              /\ Str(Get(run.more_task_types[i].categoryId, NoneV)) \notin run.analyzed
              /\ status = "returned" =>
                    /\ Str(Get(run.more_task_types[i].categoryId, NoneV)) \in DOMAIN nodes
                    /\ nodes[Str(Get(run.more_task_types[i].categoryId, NoneV))].node_type
                          = "task_type"
        /\ \A j \in DOMAIN gRels : gRels[j].source_id \notin C27_LateIds

\* a run in which a task type with a TASK field of its own was fetched after
\* the second call, and the graph is built
C27_Witness ==
    /\ RunBuilt /\ op = "get_graph_stats"
    /\ run.calls = 2
    /\ \E i \in DOMAIN run.more_task_types :
          /\ run.more_task_types[i].fields # <<>>
          /\ Str(Get(run.more_task_types[i].categoryId, NoneV)) = "78"
    /\ "78" \in DOMAIN nodes /\ "79" \notin DOMAIN nodes

(***************************************************************************)
(* Properties of fetch_external_task_types.                                *)
(***************************************************************************)
\* what the client answers a request for a task type with
C30_Answer(task_type_id) ==
    IF task_type_id \in DOMAIN server.task_types
    THEN server.task_types[task_type_id] ELSE [answer |-> FALSE]

\* the definitions the client gave for the ids asked for, in their order
C30_Answers(fetch) ==
    LET answered == SelectSeq(fetch.requested, LAMBDA id : C30_Answer(id).answer)
    IN  [k \in DOMAIN answered |-> C30_Answer(answered[k])]

\* a definition with its two keys as the function leaves them
C30_Returned(definition, marked) ==
    [definition EXCEPT
        !.external = IF marked THEN [k |-> "bool", s |-> "True"] ELSE @,
        !.formType = IF @.k = "absent" THEN [k |-> "str", s |-> "TASK"] ELSE @]

\* the container id of the definition is present and differs from the
\* solution container id
C30_PresentAndDiffers(definition) ==
    /\ definition.container.k = "dict"
    /\ definition.container.id.k \notin {"absent", "none"}
    /\ definition.container.id.s # RoomId

\* the container id of the definition is truthy and differs from the
\* solution container id
C30_TruthyAndDiffers(definition) ==
    /\ C30_PresentAndDiffers(definition)
    /\ definition.container.id.s \notin {"", "0", "False", "[]"}

\* C30 as stated: only ids outside existing_task_type_ids are asked for, and
\* each returned task type is the definition with external true exactly
\* when its container id is present and differs, and formType TASK when it
\* was absent.
C30_AsStated ==
    run # Idle =>
        \A c \in DOMAIN run.fetches :
            ~run.fetches[c].raised =>
                /\ \A k \in DOMAIN run.fetches[c].requested :
                      run.fetches[c].requested[k] \notin run.fetches[c].existing
                /\ run.fetches[c].returned =
                      [k \in DOMAIN C30_Answers(run.fetches[c]) |->
                          C30_Returned(C30_Answers(run.fetches[c])[k],
                              C30_PresentAndDiffers(C30_Answers(run.fetches[c])[k]))]

\* C30: fetch_external_task_types asks only for ids outside
\* existing_task_type_ids; it raises exactly when a definition it got has a
\* container that is null; otherwise it returns the definitions it got, in
\* the order asked, a failed fetch leaving no entry, each changed in two
\* keys only: external is true when the container id is truthy and differs
\* from the solution container id (and is left as it was otherwise), and
\* formType is TASK when it was absent.
C30_TwoKeysOnly ==
    run # Idle =>
        \A c \in DOMAIN run.fetches :
            /\ \A k \in DOMAIN run.fetches[c].requested :
                  run.fetches[c].requested[k] \notin run.fetches[c].existing
            /\ run.fetches[c].raised <=>
                  \E k \in DOMAIN C30_Answers(run.fetches[c]) :
                      C30_Answers(run.fetches[c])[k].container.k = "none"
            /\ ~run.fetches[c].raised =>
                  run.fetches[c].returned =
                      [k \in DOMAIN C30_Answers(run.fetches[c]) |->
                          C30_Returned(C30_Answers(run.fetches[c])[k],
                              C30_TruthyAndDiffers(C30_Answers(run.fetches[c])[k]))]

\* two calls in one run: the first returned a task type of another
\* container, marked external and given formType TASK; the second returned a
\* task type whose container id is the empty string, left unmarked
C30_Witness ==
    /\ run # Idle /\ Len(run.fetches) = 2
    /\ Len(run.fetches[1].returned) = 1
    /\ run.fetches[1].returned[1].external = [k |-> "bool", s |-> "True"]
    /\ run.fetches[1].returned[1].formType = [k |-> "str", s |-> "TASK"]
    /\ Len(run.fetches[2].returned) = 1
    /\ run.fetches[2].returned[1].container.id = [k |-> "str", s |-> ""]
    /\ run.fetches[2].returned[1].external.k = "absent"

\* a call whose only fetch failed, and one that left an id it was given
\* unasked because it is in existing_task_type_ids
C30_WitnessOmitted ==
    /\ run # Idle /\ Len(run.fetches) >= 1
    /\ run.fetches[1].requested = <<"77">>
    /\ ~run.fetches[1].raised
    /\ run.fetches[1].returned = <<>>

(***************************************************************************)
(* Properties of the concurrent fetches.                                   *)
(***************************************************************************)
\* the tasks whose request was sent and is not yet answered
C28_InFlight == {i \in DOMAIN tasks : tasks[i].pc = "request"}

\* C28: in every interleaving of one call of a fetching function, at most
\* max_concurrent requests are in flight at any moment, in both phases of
\* fetch_all_object_actions alike, and no builder request is sent before
\* every request for an action list is answered.
C28_AtMostMaxConcurrent ==
    op = "fetch" =>
        /\ Cardinality(C28_InFlight) <= call.max_concurrent
        /\ \A i \in DOMAIN tasks :
              tasks[i].phase = 2 /\ tasks[i].pc # "waiting" =>
                  \A j \in DOMAIN tasks : tasks[j].phase = 1 => tasks[j].pc = "done"

\* phase 2 of fetch_all_object_actions with as many builder requests in
\* flight as the semaphore admits, and a further builder task waiting
C28_Witness ==
    /\ op = "fetch" /\ call.fn = "fetch_all_object_actions" /\ call.phase = 2
    /\ call.max_concurrent = 2
    /\ Cardinality(C28_InFlight) = 2
    /\ \E i \in DOMAIN tasks : tasks[i].phase = 2 /\ tasks[i].pc = "waiting"

\* the definition the client gives for a basic form record
C29_Definition(form) ==
    LET form_id == IF form.id.k = "absent" THEN form.formId.s ELSE form.id.s
    IN  [id |-> [k |-> "str", s |-> form_id],
         name |-> [k |-> "str", s |-> "Form " \o form_id],
         fieldsKind |-> "dict",
         fields |-> <<[id |-> "f1", f |-> RefParent2]>>]

\* C29: whatever order the fetches complete in and whichever fail,
\* fetch_all_form_definitions returns a list as long as its input whose
\* position i holds the definition of form i, or the basic record of form i
\* when its fetch failed.
C29_PositionsKept ==
    op = "fetch" /\ call.fn = "fetch_all_form_definitions" /\ status = "returned" =>
        /\ Len(results) = call.count
        /\ \A i \in 1..call.count :
              results[i] = IF tasks[i].outcome = "fail" THEN FormOf(i)
                           ELSE C29_Definition(FormOf(i))

\* three forms whose fetches completed out of order, the second failing
C29_Witness ==
    /\ op = "fetch" /\ call.fn = "fetch_all_form_definitions" /\ status = "returned"
    /\ call.count = 3
    /\ finished = <<2, 1, 3>>
    /\ tasks[2].outcome = "fail" /\ tasks[1].outcome = "ok" /\ tasks[3].outcome = "ok"
    /\ results[2] = FormOf(2) /\ results[1] # FormOf(1)

====
